---- MODULE Spec2Model ----
(***************************************************************************)
(* A model of backend/server.py: the record lifecycle between the local    *)
(* document store (db.users, db.dns_records), the DNS provider             *)
(* (Cloudflare) and the three callers of it: the self-service API, the     *)
(* admin API and the Telegram bot.                                         *)
(*                                                                         *)
(* Every request handler is a task that advances one await at a time: a    *)
(* step is one store operation or one provider call together with the      *)
(* synchronous code that follows it up to the next await.  Tasks           *)
(* interleave at these points, as coroutines of one event loop do.         *)
(***************************************************************************)
EXTENDS Integers, Sequences, FiniteSets, TLC

VARIABLES
    users,      \* db.users: user id -> user document
    records,    \* db.dns_records: the set of record documents
    provider,   \* the records the DNS provider holds for the zone
    nextId,     \* the next fresh local record id (uuid4)
    nextCf,     \* the next id the provider assigns
    conv,       \* the bot's context.user_data, per chat
    task,       \* the request handlers in flight
    plans,      \* db.plans: plan_id -> the catalog entry's record_limit
    plan_limits, \* the process's PLAN_LIMITS dictionary
    settings,   \* db.settings: the site_settings document
    nextUser,   \* how many accounts have registered (their ids are fresh)
    bot         \* start_telegram_bot and stop_telegram_bot: where they are,
                \* the global telegram_bot_app and the instances built

vars ==
    <<users, records, provider, nextId, nextCf, conv, task, plans,
      plan_limits, settings, nextUser, bot>>

----------------------------------------------------------------------------
(* Bounds and input sets *)

\* How many creations the provider accepts in a behaviour, and so how many
\* record ids (local and provider) are ever allocated.
MaxRecordIds == 2

Tasks == {1, 2}

RegularUsers == {"u1", "u2"}
AdminUser == "adm"
UserIds == RegularUsers \cup {AdminUser}

Chats == {"chat1"}

\* The process-wide zone domain (DOMAIN_NAME's default).
CF_ZONE_DOMAIN == "example.com"

SupportedTypes == {"A", "AAAA", "CNAME"}

\* The built-in plan limits.
PLAN_LIMITS_free == 2
PLAN_LIMITS_pro == 50
PLAN_LIMITS_enterprise == 500

\* The fetch bound of the record listings.
ListCap100 == 100
ListCap500 == 500

----------------------------------------------------------------------------
(* Option values are sets with at most one element. *)

The(S) == CHOOSE x \in S : TRUE

NoReq ==
    [id |-> 0, user_id |-> "", name |-> "", record_type |-> "",
     content |-> {}, ttl |-> {}, proxied |-> {}, data |-> "", text |-> "",
     ok |-> TRUE, user_ids |-> <<>>, email |-> "", password |-> "",
     referral_code |-> {}, plan |-> "", limit |-> {}, bonus |-> {}]

\* A response: the HTTP status (0 for a bot reply), the kind of message, the
\* numbers and names the message carries and the record views it shows.
NoResp ==
    [status |-> 0, kind |-> "", limit |-> -1, full_name |-> "",
     record_type |-> "", shown |-> {}, count |-> -1, token |-> {}]

Resp(status, kind) == [NoResp EXCEPT !.status = status, !.kind = kind]

\* A handler's local state: its place (pc), the request, what it has read
\* (user, rec, todo), the provider id it was given, and its response.  cfcalls
\* counts its provider calls, cferr says that one failed, log is the activity
\* entry it appended and pre the stores as they were when the request arrived.
IdleTask ==
    [pc |-> "idle", op |-> "", actor |-> "", req |-> NoReq, user |-> {},
     rec |-> {}, full_name |-> "", cf_id |-> 0, todo |-> {},
     resp |-> NoResp, cfcalls |-> 0, cferr |-> FALSE, log |-> {},
     pre |-> {}, queue |-> <<>>, deleted |-> 0, settings |-> {},
     default_free |-> 0, new |-> {}, new_limit |-> 0, non_admin_ids |-> <<>>,
     first |-> {}]

\* The store and the provider as one value, to compare before and after.
Snapshot ==
    [users |-> users, records |-> records, provider |-> provider,
     plans |-> plans, plan_limits |-> plan_limits, settings |-> settings]

----------------------------------------------------------------------------
(* The stores *)

\* The seeded plan catalog, which is also the built-in PLAN_LIMITS table:
\* plan_id -> record_limit.
DEFAULT_PLANS ==
    [p \in {"free", "pro", "enterprise"} |->
        CASE p = "free" -> PLAN_LIMITS_free
          [] p = "pro" -> PLAN_LIMITS_pro
          [] p = "enterprise" -> PLAN_LIMITS_enterprise]

\* The seeded site_settings document.
DefaultSettings ==
    [referral_bonus_per_invite |-> 1, default_free_records |-> PLAN_LIMITS_free]

\* The email of the accounts that exist from the start.
EmailOf(id) == id \o "@gmail.com"

\* The referral code generated for an account: unique to it.
ReferralCodeOf(id) == "ref-" \o id

UserDoc(id, role, limit) ==
    [id |-> id, email |-> EmailOf(id), role |-> role,
     plan |-> IF role = "admin" THEN "enterprise" ELSE "free",
     record_count |-> 0, record_limit |-> limit,
     referral_code |-> ReferralCodeOf(id), referred_by |-> {},
     referral_count |-> 0, referral_bonus |-> 0,
     telegram_chat_id |-> {}]

\* db.users.find_one({"id": id})
FindUser(id) == IF id \in DOMAIN users THEN {users[id]} ELSE {}

\* A faulty variant of IncRecordCount: the counter update is left out.
IncRecordCount_Forgotten(us, id, d) == us

\* db.users.find_one({"email": email})
FindUserByEmail(email) == {users[u] : u \in {x \in DOMAIN users : users[x].email = email}}

\* db.users.find_one({"referral_code": code})
FindUserByCode(code) ==
    {users[u] : u \in {x \in DOMAIN users : users[x].referral_code = code}}

\* db.users.update_one({"id": id}, {"$inc": {"record_count": d}}): a filter that
\* matches no document updates nothing.
IncRecordCount(us, id, d) ==
    IF id \in DOMAIN us
    THEN [us EXCEPT ![id].record_count = @ + d]
    ELSE us

\* db.dns_records.count_documents({"user_id": uid})
CountDocuments(uid) == Cardinality({r \in records : r.user_id = uid})

\* db.dns_records.find({"user_id": uid}).to_list(cap): at most cap of them,
\* the oldest first.
ToList(S, cap) ==
    IF Cardinality(S) <= cap THEN S
    ELSE {r \in S : Cardinality({q \in S : q.id < r.id}) < cap}

FindByOwner(uid, cap) == ToList({r \in records : r.user_id = uid}, cap)

\* A faulty variant of FindDuplicate: the short name is compared with the
\* full name, so nothing matches.
FindDuplicate_ShortName(fn, ty) ==
    {r \in records : r.name = fn /\ r.record_type = ty}

\* db.dns_records.find_one({"full_name": fn, "record_type": ty}), as the set of
\* documents that match.
FindDuplicate(fn, ty) ==
    {r \in records : r.full_name = fn /\ r.record_type = ty}

\* A faulty variant of FindOwnedRecord: the owner is left out of the filter.
FindOwnedRecord_AnyOwner(id, uid) == {r \in records : r.id = id}

\* db.dns_records.find_one({"id": id, "user_id": uid})
FindOwnedRecord(id, uid) == {r \in records : r.id = id /\ r.user_id = uid}

\* db.dns_records.find_one({"id": id})
FindRecord(id) == {r \in records : r.id = id}

\* db.dns_records.insert_one(doc): the collection has a unique index on "id"
\* only, and ids are fresh, so the insert always succeeds.
InsertRecord(recs, doc) == recs \cup {doc}

\* A faulty variant of DeleteRecordById: nothing is removed.
DeleteRecordById_Kept(recs, id) == recs

\* db.dns_records.delete_one({"id": id})
DeleteRecordById(recs, id) == {r \in recs : r.id # id}

\* db.dns_records.delete_many({"user_id": uid})
DeleteRecordsOf(recs, uid) == {r \in recs : r.user_id # uid}

\* A faulty variant of SetRecordFields: the filter matches every record.
SetRecordFields_NoFilter(recs, id, content, ttl, proxied) ==
    {[r EXCEPT !.content = content, !.ttl = ttl, !.proxied = proxied] :
        r \in recs}

\* db.dns_records.update_one({"id": id}, {"$set": fields})
SetRecordFields(recs, id, content, ttl, proxied) ==
    {IF r.id = id
     THEN [r EXCEPT !.content = content, !.ttl = ttl, !.proxied = proxied]
     ELSE r : r \in recs}

RecordDoc(id, cf, uid, name, fn, ty, content, ttl, proxied) ==
    [id |-> id, cf_record_id |-> cf, user_id |-> uid, name |-> name,
     full_name |-> fn, record_type |-> ty, content |-> content, ttl |-> ttl,
     proxied |-> proxied]

----------------------------------------------------------------------------
(* The DNS provider client *)

\* The name cf_create_record sends to the provider.
CfFullName(name) ==
    IF name # "@" THEN name \o "." \o CF_ZONE_DOMAIN ELSE CF_ZONE_DOMAIN

\* cf_create_record on success: the provider stores the record under a new id.
CfCreate(prov, cf, name, ty, content, ttl, proxied) ==
    prov \cup {[id |-> cf, type |-> ty, name |-> CfFullName(name),
                content |-> content, ttl |-> ttl, proxied |-> proxied]}

\* cf_update_record on success: the provider's record takes the sent values.
CfUpdate(prov, cf, ty, name, content, ttl, proxied) ==
    {IF p.id = cf
     THEN [id |-> cf, type |-> ty, name |-> name, content |-> content,
           ttl |-> ttl, proxied |-> proxied]
     ELSE p : p \in prov}

\* A faulty variant of CfDelete: the request is sent to the collection and
\* not to the record.
CfDelete_Zone(prov, cf) == {}

\* cf_delete_record on success.
CfDelete(prov, cf) == {p \in prov : p.id # cf}

\* The provider answers success or an error envelope; update and delete of an
\* id the provider does not hold always fail.
CfOutcomes(cf) == IF \E p \in provider : p.id = cf THEN BOOLEAN ELSE {FALSE}

\* The provider's answers to a creation; it accepts MaxRecordIds creations
\* and refuses the later ones.
CfCreateOutcomes == IF nextCf <= MaxRecordIds THEN BOOLEAN ELSE {FALSE}

\* The HTTPException a cf_* function raises on an error envelope.
CfRaise(l) ==
    [l EXCEPT !.pc = "done", !.cferr = TRUE,
              !.resp = [NoResp EXCEPT !.status = 400, !.kind = "ProviderError"]]

\* Faulty variants of the three result operators below: the envelope's
\* success flag is not looked at and the caller goes on.
CfCreateResult_Unchecked(l, ok, cf, next) ==
    [l EXCEPT !.pc = next, !.cf_id = cf, !.cferr = ~ok]

CfUpdateResult_Unchecked(l, ok, next) == [l EXCEPT !.pc = next, !.cferr = ~ok]

CfDeleteResult_Unchecked(l, ok, next) == [l EXCEPT !.pc = next, !.cferr = ~ok]

\* How the caller of cf_create_record goes on: with the provider's id after a
\* success, with the exception after a failure.
CfCreateResult(l, ok, cf, next) ==
    IF ok THEN [l EXCEPT !.pc = next, !.cf_id = cf] ELSE CfRaise(l)

\* The same for cf_update_record.
CfUpdateResult(l, ok, next) == IF ok THEN [l EXCEPT !.pc = next] ELSE CfRaise(l)

\* The same for cf_delete_record.
CfDeleteResult(l, ok, next) == IF ok THEN [l EXCEPT !.pc = next] ELSE CfRaise(l)

\* A faulty variant of CfTolerated: the failure is raised to the caller.
CfTolerated_Raised(l, ok) == IF ok THEN l ELSE CfRaise(l)

\* The account deletions catch the exception, log a warning and go on.
CfTolerated(l, ok) == [l EXCEPT !.cferr = @ \/ ~ok]

\* The bot's handlers catch the exception and reply with the error message.
BotCatch(l) ==
    IF l.pc = "done" /\ l.cferr
    THEN [l EXCEPT !.resp = [NoResp EXCEPT !.kind = "error"]]
    ELSE l

\* The process before its startup event: telegram_bot_app is None (0; k > 0
\* is the instance built by attempt k) and no instance has been built.
NoBot ==
    [pc |-> "off", token |-> FALSE, attempt |-> 0, telegram_bot_app |-> 0,
     instances |-> <<>>, confirmed |-> FALSE, ret |-> ""]

----------------------------------------------------------------------------
(* Task plumbing *)

\* The task takes its next local state; no request handler touches the bot
\* application.
Advance(t, l) ==
    /\ task' = [task EXCEPT ![t] = l]
    /\ UNCHANGED bot

\* The same for the handlers that write neither the catalog, the plan-limit
\* dictionary, the settings nor a new account.
Set(t, l) ==
    /\ Advance(t, l)
    /\ UNCHANGED <<plans, plan_limits, settings, nextUser>>

Goto(l, pc) == [l EXCEPT !.pc = pc]

Finish(l, resp) == [l EXCEPT !.pc = "done", !.resp = resp]

At(t, pc) == task[t].pc = pc

\* A request arrives: op, the caller (a user id, or a chat id for the bot) and
\* the request's content.
Arrive(t, op, actor, req) == At(t, "idle")

NewTask(op, actor, req) ==
    [IdleTask EXCEPT !.op = op, !.actor = actor, !.req = req,
                     !.pre = {Snapshot}]

\* The client, answered with success, sends its next request at once; first
\* keeps the stores as the first request left them.
FollowUp(t, l) ==
    /\ At(t, "done")
    /\ task[t].resp.status \in {200, 201}
    /\ Set(t, [l EXCEPT !.first = {Snapshot}])

\* The response has been sent.
Return(t) ==
    /\ At(t, "done")
    /\ Set(t, IdleTask)
    /\ UNCHANGED <<users, records, provider, nextId, nextCf, conv>>

----------------------------------------------------------------------------
(* Identity: get_current_user and get_admin_user *)

AdminOps ==
    {"admin_create_record", "admin_delete_record", "admin_delete_user",
     "admin_bulk_delete_users", "admin_update_settings", "admin_update_plan",
     "admin_create_plan", "admin_update_plan_details", "admin_delete_plan",
     "admin_bulk_update_plan"}

TypeSupported(ty) == ty \in SupportedTypes

\* The fields of the request that are not None.
SettingsFields(r) ==
    [f \in {x \in {"referral_bonus_per_invite", "default_free_records"} :
               IF x = "referral_bonus_per_invite" THEN r.bonus # {}
               ELSE r.limit # {}} |->
        IF f = "referral_bonus_per_invite" THEN The(r.bonus)
        ELSE The(r.limit)]


\* The handler's synchronous code from its start to its first await.
Enter(l) ==
    CASE l.op = "create_record" ->
           IF ~TypeSupported(l.req.record_type)
           THEN Finish(l, Resp(400, "InvalidInput"))
           ELSE Goto(l, "cr_count")
      [] l.op = "update_record" -> Goto(l, "up_find")
      [] l.op = "delete_record" -> Goto(l, "de_find")
      [] l.op = "admin_create_record" ->
           IF ~TypeSupported(l.req.record_type)
           THEN Finish(l, Resp(400, "InvalidInput"))
           ELSE Goto(l, "ac_user")
      [] l.op = "admin_delete_record" -> Goto(l, "ad_find")
      [] l.op = "admin_delete_user" -> Goto(l, "du_find")
      [] l.op = "list_records" -> Goto(l, "ls_find")
      [] l.op = "admin_update_plan" -> Goto(l, "ap_plan")
      [] l.op = "admin_bulk_update_plan" ->
           IF l.req.user_ids = <<>>
           THEN Finish(l, Resp(422, "InvalidInput"))
           ELSE Goto(l, "bp_plan")
      [] l.op = "admin_create_plan" ->
           IF l.req.plan = "" \/ l.req.limit = {} \/ The(l.req.limit) < 0
           THEN Finish(l, Resp(422, "InvalidInput"))
           ELSE Goto(l, "pc_find")
      [] l.op = "admin_update_plan_details" -> Goto(l, "pe_find")
      [] l.op = "admin_delete_plan" -> Goto(l, "pd_find")
      [] l.op = "admin_update_settings" ->
           IF DOMAIN SettingsFields(l.req) = {}
           THEN Finish(l, Resp(400, "No fields to update"))
           ELSE Goto(l, "st_set")
      [] l.op = "admin_bulk_delete_users" ->
           IF l.req.user_ids = <<>>
           THEN Finish(l, Resp(422, "InvalidInput"))
           ELSE Goto([l EXCEPT !.queue = l.req.user_ids], "bd_find")

\* A faulty variant of AdminGate: the role is not looked at.
AdminGate_Open(l, u) == TRUE

\* get_admin_user's gate on the resolved account.
AdminGate(l, u) == l.op \in AdminOps => u.role = "admin"

\* get_current_user (the account the token names must exist), then the admin
\* gate, then the handler.
Authenticate(l) ==
    LET found == FindUser(l.actor) IN
    IF found = {}
    THEN Finish(l, Resp(401, "User not found"))
    ELSE IF ~AdminGate(l, The(found))
         THEN Finish([l EXCEPT !.user = found], Resp(403, "Forbidden"))
         ELSE Enter([l EXCEPT !.user = found])

\* An API request arrives and its dependencies are resolved.
StartApi(t, op, actor, req) ==
    /\ Arrive(t, op, actor, req)
    /\ Set(t, Authenticate(NewTask(op, actor, req)))
    /\ UNCHANGED <<users, records, provider, nextId, nextCf, conv>>

----------------------------------------------------------------------------
(* create_record *)

\* A faulty variant of FullName: the apex marker is not looked at.
FullName_NoApex(name) == name \o "." \o CF_ZONE_DOMAIN

\* The full name create_record stores.
FullName(name) ==
    IF name # "@" THEN name \o "." \o CF_ZONE_DOMAIN ELSE CF_ZONE_DOMAIN

\* A faulty variant of QuotaReached: the comparison is off by one.
QuotaReached_OffByOne(count, u) == count > u.record_limit

\* The quota check: the account already owns record_limit records or more.
QuotaReached(count, u) == count >= u.record_limit

LogEntry(u, action) == {[user_id |-> u.id, action |-> action]}

CrCount(t) ==
    /\ At(t, "cr_count")
    /\ LET l == task[t]
           u == The(l.user)
       IN  IF QuotaReached(CountDocuments(u.id), u)
           THEN Set(t, Finish(l, [Resp(403, "QuotaExceeded")
                                    EXCEPT !.limit = u.record_limit]))
           ELSE Set(t, Goto([l EXCEPT !.full_name = FullName(l.req.name)],
                            "cr_dup"))
    /\ UNCHANGED <<users, records, provider, nextId, nextCf, conv>>

CrDup(t) ==
    /\ At(t, "cr_dup")
    /\ LET l == task[t] IN
       IF FindDuplicate(l.full_name, l.req.record_type) # {}
       THEN Set(t, Finish(l, [Resp(400, "DuplicateRecord")
                                EXCEPT !.full_name = l.full_name,
                                       !.record_type = l.req.record_type]))
       ELSE Set(t, Goto(l, "cr_cf"))
    /\ UNCHANGED <<users, records, provider, nextId, nextCf, conv>>

\* The provider call of a create: on success the provider holds the record.
CreateAtProvider(t, next, name, ty, content, ttl, proxied) ==
    LET l == [task[t] EXCEPT !.cfcalls = @ + 1] IN
    \E ok \in CfCreateOutcomes :
       /\ Set(t, CfCreateResult(l, ok, nextCf, next))
       /\ IF ok
          THEN /\ provider' = CfCreate(provider, nextCf, name, ty, content, ttl,
                                       proxied)
               /\ nextCf' = nextCf + 1
          ELSE UNCHANGED <<provider, nextCf>>

CrCf(t) ==
    /\ At(t, "cr_cf")
    /\ LET r == task[t].req IN
       CreateAtProvider(t, "cr_insert", r.name, r.record_type, The(r.content),
                        The(r.ttl), The(r.proxied))
    /\ UNCHANGED <<users, records, nextId, conv>>

CrInsert(t) ==
    /\ At(t, "cr_insert")
    /\ LET l == task[t]
           r == l.req
           doc == RecordDoc(nextId, l.cf_id, The(l.user).id, r.name,
                            l.full_name, r.record_type, The(r.content),
                            The(r.ttl), The(r.proxied))
       IN  /\ records' = InsertRecord(records, doc)
           /\ Set(t, Goto([l EXCEPT !.rec = {doc}], "cr_inc"))
    /\ nextId' = nextId + 1
    /\ UNCHANGED <<users, provider, nextCf, conv>>

CrInc(t) ==
    /\ At(t, "cr_inc")
    /\ users' = IncRecordCount(users, The(task[t].user).id, 1)
    /\ Set(t, Goto(task[t], "cr_log"))
    /\ UNCHANGED <<records, provider, nextId, nextCf, conv>>

CrLog(t) ==
    /\ At(t, "cr_log")
    /\ LET l == task[t] IN
       Set(t, Finish([l EXCEPT !.log = LogEntry(The(l.user), "record_created")],
                     [Resp(201, "Created") EXCEPT !.shown = l.rec]))
    /\ UNCHANGED <<users, records, provider, nextId, nextCf, conv>>

----------------------------------------------------------------------------
(* list_records *)

LsFind(t) ==
    /\ At(t, "ls_find")
    /\ LET l == task[t]
           listed == FindByOwner(The(l.user).id, ListCap100)
       IN  Set(t, Finish(l, [Resp(200, "Records")
                               EXCEPT !.shown = listed,
                                      !.count = Cardinality(listed)]))
    /\ UNCHANGED <<users, records, provider, nextId, nextCf, conv>>

----------------------------------------------------------------------------
(* update_record *)

\* A field of the update: the provided value, else the stored one.
Merge(provided, stored) == IF provided # {} THEN The(provided) ELSE stored

\* Faulty variants: an omitted ttl falls to cf_update_record's default, an
\* omitted proxied is negated.
MergedTtl_Default(l) == IF l.req.ttl # {} THEN The(l.req.ttl) ELSE 1
MergedProxied_Negated(l) ==
    IF l.req.proxied # {} THEN The(l.req.proxied) ELSE ~The(l.rec).proxied

MergedContent(l) == Merge(l.req.content, The(l.rec).content)
MergedTtl(l) == Merge(l.req.ttl, The(l.rec).ttl)
MergedProxied(l) == Merge(l.req.proxied, The(l.rec).proxied)

UpFind(t) ==
    /\ At(t, "up_find")
    /\ LET l == task[t]
           found == FindOwnedRecord(l.req.id, The(l.user).id)
       IN  IF found = {}
           THEN Set(t, Finish(l, Resp(404, "Record not found")))
           ELSE Set(t, Goto([l EXCEPT !.rec = found], "up_cf"))
    /\ UNCHANGED <<users, records, provider, nextId, nextCf, conv>>

UpCf(t) ==
    /\ At(t, "up_cf")
    /\ LET l == [task[t] EXCEPT !.cfcalls = @ + 1]
           rec == The(l.rec)
       IN  \E ok \in CfOutcomes(rec.cf_record_id) :
              /\ Set(t, CfUpdateResult(l, ok, "up_set"))
              /\ provider' = IF ok
                             THEN CfUpdate(provider, rec.cf_record_id,
                                           rec.record_type, rec.full_name,
                                           MergedContent(l), MergedTtl(l),
                                           MergedProxied(l))
                             ELSE provider
    /\ UNCHANGED <<users, records, nextId, nextCf, conv>>

UpSet(t) ==
    /\ At(t, "up_set")
    /\ LET l == task[t] IN
       records' = SetRecordFields(records, l.req.id, MergedContent(l),
                                  MergedTtl(l), MergedProxied(l))
    /\ Set(t, Goto(task[t], "up_log"))
    /\ UNCHANGED <<users, provider, nextId, nextCf, conv>>

UpLog(t) ==
    /\ At(t, "up_log")
    /\ LET l == task[t]
           view == [The(l.rec) EXCEPT !.content = MergedContent(l),
                                      !.ttl = MergedTtl(l),
                                      !.proxied = MergedProxied(l)]
       IN  Set(t, Finish([l EXCEPT !.log = LogEntry(The(l.user),
                                                    "record_updated")],
                         [Resp(200, "Updated") EXCEPT !.shown = {view}]))
    /\ UNCHANGED <<users, records, provider, nextId, nextCf, conv>>

----------------------------------------------------------------------------
(* delete_record *)

\* The provider call of a delete, which raises on an error envelope.
DeleteAtProvider(t, next) ==
    LET l == [task[t] EXCEPT !.cfcalls = @ + 1]
        cf == The(l.rec).cf_record_id
    IN  \E ok \in CfOutcomes(cf) :
           /\ Set(t, CfDeleteResult(l, ok, next))
           /\ provider' = IF ok THEN CfDelete(provider, cf) ELSE provider

DeFind(t) ==
    /\ At(t, "de_find")
    /\ LET l == task[t]
           found == FindOwnedRecord(l.req.id, The(l.user).id)
       IN  IF found = {}
           THEN Set(t, Finish(l, Resp(404, "Record not found")))
           ELSE Set(t, Goto([l EXCEPT !.rec = found], "de_cf"))
    /\ UNCHANGED <<users, records, provider, nextId, nextCf, conv>>

DeCf(t) ==
    /\ At(t, "de_cf")
    /\ DeleteAtProvider(t, "de_del")
    /\ UNCHANGED <<users, records, nextId, nextCf, conv>>

DeDel(t) ==
    /\ At(t, "de_del")
    /\ records' = DeleteRecordById(records, task[t].req.id)
    /\ Set(t, Goto(task[t], "de_dec"))
    /\ UNCHANGED <<users, provider, nextId, nextCf, conv>>

DeDec(t) ==
    /\ At(t, "de_dec")
    /\ users' = IncRecordCount(users, The(task[t].user).id, -1)
    /\ Set(t, Goto(task[t], "de_log"))
    /\ UNCHANGED <<records, provider, nextId, nextCf, conv>>

DeLog(t) ==
    /\ At(t, "de_log")
    /\ LET l == task[t] IN
       Set(t, Finish([l EXCEPT !.log = LogEntry(The(l.user), "record_deleted")],
                     Resp(200, "Deleted")))
    /\ UNCHANGED <<users, records, provider, nextId, nextCf, conv>>

----------------------------------------------------------------------------
(* admin_create_record and admin_delete_record *)

AcUser(t) ==
    /\ At(t, "ac_user")
    /\ LET l == task[t] IN
       IF FindUser(l.req.user_id) = {}
       THEN Set(t, Finish(l, Resp(404, "User not found")))
       ELSE Set(t, Goto([l EXCEPT !.full_name = FullName(l.req.name)], "ac_cf"))
    /\ UNCHANGED <<users, records, provider, nextId, nextCf, conv>>

AcCf(t) ==
    /\ At(t, "ac_cf")
    /\ LET r == task[t].req IN
       CreateAtProvider(t, "ac_insert", r.name, r.record_type, The(r.content),
                        The(r.ttl), The(r.proxied))
    /\ UNCHANGED <<users, records, nextId, conv>>

AcInsert(t) ==
    /\ At(t, "ac_insert")
    /\ LET l == task[t]
           r == l.req
           doc == RecordDoc(nextId, l.cf_id, r.user_id, r.name, l.full_name,
                            r.record_type, The(r.content), The(r.ttl),
                            The(r.proxied))
       IN  /\ records' = InsertRecord(records, doc)
           /\ Set(t, Goto([l EXCEPT !.rec = {doc}], "ac_inc"))
    /\ nextId' = nextId + 1
    /\ UNCHANGED <<users, provider, nextCf, conv>>

AcInc(t) ==
    /\ At(t, "ac_inc")
    /\ users' = IncRecordCount(users, task[t].req.user_id, 1)
    /\ Set(t, Finish(task[t], [Resp(201, "Created")
                                 EXCEPT !.shown = task[t].rec]))
    /\ UNCHANGED <<records, provider, nextId, nextCf, conv>>

AdFind(t) ==
    /\ At(t, "ad_find")
    /\ LET l == task[t]
           found == FindRecord(l.req.id)
       IN  IF found = {}
           THEN Set(t, Finish(l, Resp(404, "Record not found")))
           ELSE Set(t, Goto([l EXCEPT !.rec = found], "ad_cf"))
    /\ UNCHANGED <<users, records, provider, nextId, nextCf, conv>>

AdCf(t) ==
    /\ At(t, "ad_cf")
    /\ DeleteAtProvider(t, "ad_del")
    /\ UNCHANGED <<users, records, nextId, nextCf, conv>>

AdDel(t) ==
    /\ At(t, "ad_del")
    /\ records' = DeleteRecordById(records, task[t].req.id)
    /\ Set(t, Goto(task[t], "ad_dec"))
    /\ UNCHANGED <<users, provider, nextId, nextCf, conv>>

AdDec(t) ==
    /\ At(t, "ad_dec")
    /\ users' = IncRecordCount(users, The(task[t].rec).user_id, -1)
    /\ Set(t, Finish(task[t], Resp(200, "Deleted")))
    /\ UNCHANGED <<records, provider, nextId, nextCf, conv>>

----------------------------------------------------------------------------
(* admin_delete_user *)

DuFind(t) ==
    /\ At(t, "du_find")
    /\ LET l == task[t]
           found == FindUser(l.req.user_id)
       IN  IF found = {}
           THEN Set(t, Finish(l, Resp(404, "User not found")))
           ELSE IF The(found).role = "admin"
                THEN Set(t, Finish(l, Resp(400, "Cannot delete admin user")))
                ELSE Set(t, Goto(l, "du_list"))
    /\ UNCHANGED <<users, records, provider, nextId, nextCf, conv>>

DuList(t) ==
    /\ At(t, "du_list")
    /\ LET l == task[t]
           listed == FindByOwner(l.req.user_id, ListCap500)
       IN  Set(t, Goto([l EXCEPT !.todo = {r.cf_record_id : r \in listed}],
                       IF listed = {} THEN "du_delmany" ELSE "du_cf"))
    /\ UNCHANGED <<users, records, provider, nextId, nextCf, conv>>

\* One turn of the loop over the listed records (in id order): a provider
\* failure is logged and the loop goes on.
DuCf(t) ==
    /\ At(t, "du_cf")
    /\ LET l == task[t]
           cf == CHOOSE c \in l.todo : \A d \in l.todo : c <= d
           rest == l.todo \ {cf}
           l2 == Goto([l EXCEPT !.todo = rest, !.cfcalls = @ + 1],
                      IF rest = {} THEN "du_delmany" ELSE "du_cf")
       IN  \E ok \in CfOutcomes(cf) :
              /\ Set(t, CfTolerated(l2, ok))
              /\ provider' = IF ok THEN CfDelete(provider, cf) ELSE provider
    /\ UNCHANGED <<users, records, nextId, nextCf, conv>>

DuDelMany(t) ==
    /\ At(t, "du_delmany")
    /\ records' = DeleteRecordsOf(records, task[t].req.user_id)
    /\ Set(t, Goto(task[t], "du_deluser"))
    /\ UNCHANGED <<users, provider, nextId, nextCf, conv>>

DuDelUser(t) ==
    /\ At(t, "du_deluser")
    /\ LET uid == task[t].req.user_id IN
       users' = [x \in DOMAIN users \ {uid} |-> users[x]]
    /\ Set(t, Finish(task[t], Resp(200, "User deleted")))
    /\ UNCHANGED <<records, provider, nextId, nextCf, conv>>

----------------------------------------------------------------------------
(* register *)

\* The ids of the accounts that register, in the order of their registration.
NewUserId(k) == "n" \o ToString(k)

\* s.endswith(suffix)
EndsWith(s, suffix) ==
    /\ Len(s) >= Len(suffix)
    /\ SubSeq(s, Len(s) - Len(suffix) + 1, Len(s)) = suffix

\* s.lower(), on the emails the model registers.
Lower(s) == IF s = "B@GMAIL.COM" THEN "b@gmail.com" ELSE s

\* EmailStr: the address has a local part, an @ and a domain.
WellFormedEmail(s) == s \notin {"", "nobody"}

\* The request model's field constraints.
RegisterValid(r) ==
    /\ WellFormedEmail(r.email)
    /\ Len(r.password) >= 6
    /\ Len(r.name) >= 2

\* A registration arrives: the fields are validated and the address must be
\* a Gmail address.
StartRegister(t, req) ==
    /\ Arrive(t, "register", "", req)
    /\ LET l == NewTask("register", "", req) IN
       IF ~RegisterValid(req)
       THEN Set(t, Finish(l, Resp(422, "InvalidInput")))
       ELSE IF ~EndsWith(Lower(req.email), "@gmail.com")
            THEN Set(t, Finish(l, Resp(400, "Only Gmail addresses")))
            ELSE Set(t, Goto(l, "rg_email"))
    /\ UNCHANGED <<users, records, provider, nextId, nextCf, conv>>

RgEmail(t) ==
    /\ At(t, "rg_email")
    /\ LET l == task[t] IN
       IF FindUserByEmail(l.req.email) # {}
       THEN Set(t, Finish(l, Resp(400, "Email already registered")))
       ELSE Set(t, Goto(l, "rg_settings"))
    /\ UNCHANGED <<users, records, provider, nextId, nextCf, conv>>

\* The settings are read; the default of default_free_records is
\* PLAN_LIMITS["free"], looked up whether it is needed or not.
RgSettings(t) ==
    /\ At(t, "rg_settings")
    /\ LET l == task[t] IN
       IF "free" \notin DOMAIN plan_limits
       THEN Set(t, Finish(l, Resp(500, "Internal Server Error")))
       ELSE Set(t, Goto([l EXCEPT !.settings = {settings},
                                  !.default_free =
                                     settings.default_free_records],
                        "rg_code"))
    /\ UNCHANGED <<users, records, provider, nextId, nextCf, conv>>

\* The referral code and the id are generated, both fresh.
RgCode(t) ==
    /\ At(t, "rg_code")
    /\ LET l == task[t]
           id == NewUserId(nextUser)
           doc == [UserDoc(id, "user", l.default_free)
                     EXCEPT !.email = l.req.email]
       IN  Advance(t, Goto([l EXCEPT !.new = {doc}],
                           IF l.req.referral_code \notin {{}, {""}}
                           THEN "rg_referrer" ELSE "rg_insert"))
    /\ nextUser' = nextUser + 1
    /\ UNCHANGED <<users, records, provider, nextId, nextCf, conv, plans,
                   plan_limits, settings>>

RgReferrer(t) ==
    /\ At(t, "rg_referrer")
    /\ LET l == task[t]
           found == FindUserByCode(The(l.req.referral_code))
       IN  \E referrer \in IF found = {} THEN {{}} ELSE {{u} : u \in found} :
              IF referrer = {}
              THEN Set(t, Goto(l, "rg_insert"))
              ELSE Set(t, Goto([l EXCEPT
                                  !.user = referrer,
                                  !.new = {[The(@) EXCEPT !.referred_by =
                                              {The(referrer).id}]}],
                               "rg_credit"))
    /\ UNCHANGED <<users, records, provider, nextId, nextCf, conv>>

\* A faulty variant of ReferralBonus: the default is taken whatever the
\* settings say.
ReferralBonus_Default(st) == 1

\* (settings or {}).get("referral_bonus_per_invite", 1), from the settings
\* the handler read.
ReferralBonus(st) == st.referral_bonus_per_invite

\* A faulty variant of Credit: referral_count is left out of the $inc.
Credit_NoCount(us, id, bonus) ==
    IF id \in DOMAIN us
    THEN [us EXCEPT ![id].record_limit = @ + bonus,
                    ![id].referral_bonus = @ + bonus]
    ELSE us

\* update_one $inc of the referrer's record_limit, referral_count and
\* referral_bonus.
Credit(us, id, bonus) ==
    IF id \in DOMAIN us
    THEN [us EXCEPT ![id].record_limit = @ + bonus,
                    ![id].referral_count = @ + 1,
                    ![id].referral_bonus = @ + bonus]
    ELSE us

RgCredit(t) ==
    /\ At(t, "rg_credit")
    /\ LET l == task[t] IN
       users' = Credit(users, The(l.user).id, ReferralBonus(The(l.settings)))
    /\ Set(t, Goto(task[t], "rg_insert"))
    /\ UNCHANGED <<records, provider, nextId, nextCf, conv>>

\* insert_one: the unique index on email refuses a second account with the
\* address.
RgInsert(t) ==
    /\ At(t, "rg_insert")
    /\ LET l == task[t]
           doc == The(l.new)
       IN  IF FindUserByEmail(doc.email) # {}
           THEN /\ Set(t, Finish(l, Resp(500, "Internal Server Error")))
                /\ UNCHANGED users
           ELSE /\ users' = [u \in DOMAIN users \cup {doc.id} |->
                               IF u = doc.id THEN doc ELSE users[u]]
                /\ Set(t, Goto(l, "rg_log"))
    /\ UNCHANGED <<records, provider, nextId, nextCf, conv>>

\* The user view of the registration's answer.
RegisterView(l) ==
    LET doc == The(l.new) IN
    [id |-> doc.id, email |-> l.req.email, name |-> l.req.name,
     plan |-> "free", role |-> "user", record_count |-> 0,
     record_limit |-> l.default_free, referral_code |-> doc.referral_code,
     referral_count |-> 0, referral_bonus |-> 0]

RgLog(t) ==
    /\ At(t, "rg_log")
    /\ LET l == task[t] IN
       Set(t, Finish([l EXCEPT !.log = LogEntry(The(l.new), "register")],
                     [Resp(200, "Registered")
                        EXCEPT !.token = {The(l.new).id},
                               !.shown = {RegisterView(l)}]))
    /\ UNCHANGED <<users, records, provider, nextId, nextCf, conv>>

\* The process dies in the middle of a registration: the handler is gone and
\* the store keeps what was written.
Crash(t) ==
    /\ task[t].op = "register"
    /\ task[t].pc \notin {"idle", "done"}
    /\ Set(t, IdleTask)
    /\ UNCHANGED <<users, records, provider, nextId, nextCf, conv>>

----------------------------------------------------------------------------
(* The plan catalog: admin_update_plan assigns a plan to an account,         *)
(* admin_create_plan, admin_update_plan_details and admin_delete_plan        *)
(* change the catalog and, with it, the PLAN_LIMITS dictionary.              *)

\* db.plans.find_one({"plan_id": p}), as the set of matching limits.
FindPlan(p) == IF p \in DOMAIN plans THEN {plans[p]} ELSE {}

\* d[k] = v on a dictionary.
DictSet(d, k, v) == [x \in DOMAIN d \cup {k} |-> IF x = k THEN v ELSE d[x]]

\* d.pop(k, None)
DictPop(d, k) == [x \in DOMAIN d \ {k} |-> d[x]]

\* The plan is looked up in the catalog, else in PLAN_LIMITS.
ApPlan(t) ==
    /\ At(t, "ap_plan")
    /\ LET l == task[t]
           p == l.req.plan
           plan_doc == FindPlan(p)
       IN  IF plan_doc = {}
           THEN IF p \notin DOMAIN plan_limits
                THEN Set(t, Finish(l, Resp(400, "Invalid plan")))
                ELSE Set(t, Goto([l EXCEPT !.new_limit = plan_limits[p]],
                                 "ap_user"))
           ELSE Set(t, Goto([l EXCEPT !.new_limit = The(plan_doc)], "ap_user"))
    /\ UNCHANGED <<users, records, provider, nextId, nextCf, conv>>

ApUser(t) ==
    /\ At(t, "ap_user")
    /\ LET l == task[t] IN
       IF FindUser(l.req.user_id) = {}
       THEN Set(t, Finish(l, Resp(404, "User not found")))
       ELSE Set(t, Goto(l, "ap_set"))
    /\ UNCHANGED <<users, records, provider, nextId, nextCf, conv>>

ApSet(t) ==
    /\ At(t, "ap_set")
    /\ LET l == task[t]
           uid == l.req.user_id
       IN  /\ users' = IF uid \in DOMAIN users
                       THEN [users EXCEPT ![uid].plan = l.req.plan,
                                          ![uid].record_limit = l.new_limit]
                       ELSE users
           /\ Set(t, Finish(l, [Resp(200, "Plan updated")
                                   EXCEPT !.limit = l.new_limit]))
    /\ UNCHANGED <<records, provider, nextId, nextCf, conv>>

----------------------------------------------------------------------------
(* admin_bulk_update_plan *)

BpPlan(t) ==
    /\ At(t, "bp_plan")
    /\ LET l == [task[t] EXCEPT !.queue = task[t].req.user_ids]
           p == l.req.plan
           plan_doc == FindPlan(p)
       IN  IF plan_doc = {}
           THEN IF p \notin DOMAIN plan_limits
                THEN Set(t, Finish(l, Resp(400, "Invalid plan")))
                ELSE Set(t, Goto([l EXCEPT !.new_limit = plan_limits[p]],
                                 "bp_find"))
           ELSE Set(t, Goto([l EXCEPT !.new_limit = The(plan_doc)], "bp_find"))
    /\ UNCHANGED <<users, records, provider, nextId, nextCf, conv>>

\* A faulty variant of FindNonAdmin: the role is left out of the filter.
FindNonAdmin_AnyRole(uid) == FindUser(uid)

\* db.users.find_one({"id": uid, "role": {"$ne": "admin"}})
FindNonAdmin(uid) == {u \in FindUser(uid) : u.role # "admin"}

\* One turn of the loop over user_ids; after the last, the test of
\* non_admin_ids.
BpFind(t) ==
    /\ At(t, "bp_find")
    /\ LET l == task[t]
           uid == Head(l.queue)
           l2 == [l EXCEPT !.queue = Tail(@),
                           !.non_admin_ids =
                              IF FindNonAdmin(uid) # {} THEN Append(@, uid)
                              ELSE @]
       IN  IF l2.queue # <<>>
           THEN Set(t, Goto(l2, "bp_find"))
           ELSE IF l2.non_admin_ids = <<>>
                THEN Set(t, Finish(l2, Resp(400, "No eligible users")))
                ELSE Set(t, Goto(l2, "bp_set"))
    /\ UNCHANGED <<users, records, provider, nextId, nextCf, conv>>

\* The elements of a list.
Range(q) == {q[i] : i \in DOMAIN q}

\* update_many's modified_count: the matched documents that the $set changes.
ModifiedCount(us, ids, p, limit) ==
    Cardinality({u \in ids \cap DOMAIN us :
                    us[u].plan # p \/ us[u].record_limit # limit})

\* db.users.update_many({"id": {"$in": ids}}, {"$set": {plan, record_limit}})
SetPlanOf(us, ids, p, limit) ==
    [u \in DOMAIN us |->
        IF u \in ids THEN [us[u] EXCEPT !.plan = p, !.record_limit = limit]
        ELSE us[u]]

BpSet(t) ==
    /\ At(t, "bp_set")
    /\ LET l == task[t]
           ids == Range(l.non_admin_ids)
       IN  /\ users' = SetPlanOf(users, ids, l.req.plan, l.new_limit)
           /\ Set(t, Finish(l, [Resp(200, "Users updated")
                                   EXCEPT !.count =
                                      ModifiedCount(users, ids, l.req.plan,
                                                    l.new_limit)]))
    /\ UNCHANGED <<records, provider, nextId, nextCf, conv>>

----------------------------------------------------------------------------
(* admin_create_plan, admin_update_plan_details, admin_delete_plan *)

PcFind(t) ==
    /\ At(t, "pc_find")
    /\ LET l == task[t] IN
       IF FindPlan(l.req.plan) # {}
       THEN Set(t, Finish(l, Resp(400, "Plan already exists")))
       ELSE Set(t, Goto(l, "pc_insert"))
    /\ UNCHANGED <<users, records, provider, nextId, nextCf, conv>>

\* insert_one (plan_id is unique), then the dictionary takes the limit.
PcInsert(t) ==
    /\ At(t, "pc_insert")
    /\ LET l == task[t]
           p == l.req.plan
       IN  IF p \in DOMAIN plans
           THEN /\ Advance(t, Finish(l, Resp(500, "Internal Server Error")))
                /\ UNCHANGED <<plans, plan_limits>>
           ELSE /\ plans' = DictSet(plans, p, The(l.req.limit))
                /\ plan_limits' = DictSet(plan_limits, p, The(l.req.limit))
                /\ Advance(t, Finish(l, Resp(201, "Plan created")))
    /\ UNCHANGED <<users, records, provider, nextId, nextCf, conv, settings,
                   nextUser>>

PeFind(t) ==
    /\ At(t, "pe_find")
    /\ LET l == task[t] IN
       IF FindPlan(l.req.plan) = {}
       THEN Set(t, Finish(l, Resp(404, "Plan not found")))
       ELSE IF l.req.limit = {} /\ l.req.name = ""
            THEN Set(t, Finish(l, Resp(400, "No fields to update")))
            ELSE Set(t, Goto(l, "pe_set"))
    /\ UNCHANGED <<users, records, provider, nextId, nextCf, conv>>

\* update_one with $set, then the dictionary takes a provided record_limit.
PeSet(t) ==
    /\ At(t, "pe_set")
    /\ LET l == task[t]
           p == l.req.plan
       IN  /\ plans' = IF p \in DOMAIN plans /\ l.req.limit # {}
                       THEN DictSet(plans, p, The(l.req.limit))
                       ELSE plans
           /\ plan_limits' = IF l.req.limit # {}
                             THEN DictSet(plan_limits, p, The(l.req.limit))
                             ELSE plan_limits
           /\ Advance(t, Goto(l, "pe_read"))
    /\ UNCHANGED <<users, records, provider, nextId, nextCf, conv, settings,
                   nextUser>>

PeRead(t) ==
    /\ At(t, "pe_read")
    /\ LET l == task[t] IN
       Set(t, Finish(l, [Resp(200, "Plan")
                           EXCEPT !.limit =
                              IF FindPlan(l.req.plan) = {} THEN -1
                              ELSE The(FindPlan(l.req.plan))]))
    /\ UNCHANGED <<users, records, provider, nextId, nextCf, conv>>

PdFind(t) ==
    /\ At(t, "pd_find")
    /\ LET l == task[t] IN
       IF FindPlan(l.req.plan) = {}
       THEN Set(t, Finish(l, Resp(404, "Plan not found")))
       ELSE Set(t, Goto(l, "pd_count"))
    /\ UNCHANGED <<users, records, provider, nextId, nextCf, conv>>

\* A faulty variant of UsersOnPlan: the filter names a field no account has.
UsersOnPlan_WrongField(p) == 0

\* db.users.count_documents({"plan": p})
UsersOnPlan(p) == Cardinality({u \in DOMAIN users : users[u].plan = p})

PdCount(t) ==
    /\ At(t, "pd_count")
    /\ LET l == task[t] IN
       IF UsersOnPlan(l.req.plan) > 0
       THEN Set(t, Finish(l, [Resp(400, "Cannot delete plan")
                                EXCEPT !.count = UsersOnPlan(l.req.plan)]))
       ELSE Set(t, Goto(l, "pd_delete"))
    /\ UNCHANGED <<users, records, provider, nextId, nextCf, conv>>

\* delete_one, then the plan is popped from the dictionary.
PdDelete(t) ==
    /\ At(t, "pd_delete")
    /\ LET l == task[t] IN
       /\ plans' = DictPop(plans, l.req.plan)
       /\ plan_limits' = DictPop(plan_limits, l.req.plan)
       /\ Advance(t, Finish(l, Resp(200, "Plan deleted")))
    /\ UNCHANGED <<users, records, provider, nextId, nextCf, conv, settings,
                   nextUser>>

----------------------------------------------------------------------------
(* admin_update_settings *)

\* update_one with $set of the provided fields.
StSet(t) ==
    /\ At(t, "st_set")
    /\ LET f == SettingsFields(task[t].req) IN
       settings' = [k \in DOMAIN settings |->
                      IF k \in DOMAIN f THEN f[k] ELSE settings[k]]
    /\ Advance(t, Goto(task[t], "st_find"))
    /\ UNCHANGED <<users, records, provider, nextId, nextCf, conv, plans,
                   plan_limits, nextUser>>

StFind(t) ==
    /\ At(t, "st_find")
    /\ Set(t, Finish(task[t], Resp(200, "Settings")))
    /\ UNCHANGED <<users, records, provider, nextId, nextCf, conv>>

----------------------------------------------------------------------------
(* admin_bulk_delete_users: the same deletion for each listed id in turn,    *)
(* skipping the ids of no account and of admins.                             *)

\* The end of one turn of the loop over user_ids: the next id, or the answer.
BdContinue(l) ==
    IF l.queue = <<>>
    THEN Finish(l, [Resp(200, "Users deleted") EXCEPT !.count = l.deleted])
    ELSE Goto(l, "bd_find")

BdFind(t) ==
    /\ At(t, "bd_find")
    /\ LET l == task[t]
           found == FindUser(Head(l.queue))
       IN  IF found = {} \/ The(found).role = "admin"
           THEN Set(t, BdContinue([l EXCEPT !.queue = Tail(@)]))
           ELSE Set(t, Goto(l, "bd_list"))
    /\ UNCHANGED <<users, records, provider, nextId, nextCf, conv>>

BdList(t) ==
    /\ At(t, "bd_list")
    /\ LET l == task[t]
           listed == FindByOwner(Head(l.queue), ListCap500)
       IN  Set(t, Goto([l EXCEPT !.todo = {r.cf_record_id : r \in listed}],
                       IF listed = {} THEN "bd_delmany" ELSE "bd_cf"))
    /\ UNCHANGED <<users, records, provider, nextId, nextCf, conv>>

BdCf(t) ==
    /\ At(t, "bd_cf")
    /\ LET l == task[t]
           cf == CHOOSE c \in l.todo : \A d \in l.todo : c <= d
           rest == l.todo \ {cf}
           l2 == Goto([l EXCEPT !.todo = rest, !.cfcalls = @ + 1],
                      IF rest = {} THEN "bd_delmany" ELSE "bd_cf")
       IN  \E ok \in CfOutcomes(cf) :
              /\ Set(t, CfTolerated(l2, ok))
              /\ provider' = IF ok THEN CfDelete(provider, cf) ELSE provider
    /\ UNCHANGED <<users, records, nextId, nextCf, conv>>

BdDelMany(t) ==
    /\ At(t, "bd_delmany")
    /\ records' = DeleteRecordsOf(records, Head(task[t].queue))
    /\ Set(t, Goto(task[t], "bd_deluser"))
    /\ UNCHANGED <<users, provider, nextId, nextCf, conv>>

BdDelUser(t) ==
    /\ At(t, "bd_deluser")
    /\ LET l == task[t]
           uid == Head(l.queue)
       IN  /\ users' = [x \in DOMAIN users \ {uid} |-> users[x]]
           /\ Set(t, BdContinue([l EXCEPT !.queue = Tail(@),
                                          !.deleted = @ + 1]))
    /\ UNCHANGED <<records, provider, nextId, nextCf, conv>>

----------------------------------------------------------------------------
(* The Telegram bot.  The application handles one update at a time, so bot    *)
(* handlers interleave with API requests and never with each other.           *)

BotOps == {"cb", "msg", "cmd_start"}

NoConv ==
    [login_step |-> "", login_email |-> "", add_step |-> "", add_type |-> "",
     add_name |-> ""]

\* The pops of the login and add flows' keys.
ClearFlows(cv) == NoConv

\* get_user_by_chat: db.users.find_one({"telegram_chat_id": str(chat_id)}), as
\* the set of documents that match (find_one returns one of them).
GetUserByChat(chat) ==
    {users[u] : u \in {x \in DOMAIN users : chat \in users[x].telegram_chat_id}}

BotArrive(t, op, chat, req) ==
    /\ Arrive(t, op, chat, req)
    /\ \A o \in Tasks \ {t} : task[o].op \notin BotOps

Reply(l, kind) == Finish(l, Resp(0, kind))

\* callback_handler from the resolved user to the branch's first await: the
\* task's next state and the chat's user_data.
CbEnter(l, cv) ==
    CASE l.req.data = "help_login" ->
           [l |-> Reply(l, "help_login"),
            conv |-> [NoConv EXCEPT !.login_step = "email"]]
      [] l.req.data = "add_start" ->
           [l |-> IF l.user = {} THEN Reply(l, "not_logged_in")
                  ELSE Goto(l, "as_count"),
            conv |-> cv]
      [] l.req.data = "add_type" ->
           [l |-> Reply(l, "add_enter_name"),
            conv |-> [cv EXCEPT !.add_type = l.req.record_type,
                                !.add_step = "name"]]
      [] l.req.data = "records" ->
           [l |-> IF l.user = {} THEN Reply(l, "not_logged_in")
                  ELSE Goto(l, "rl_find"),
            conv |-> cv]
      [] l.req.data = "del" ->
           [l |-> Goto(l, "dv_find"), conv |-> cv]
      [] l.req.data = "confirm_del" ->
           [l |-> IF l.user = {} THEN Reply(l, "not_logged_in")
                  ELSE Goto(l, "cd_find"),
            conv |-> cv]
      [] l.req.data = "confirm_logout" ->
           [l |-> IF l.user = {} THEN Reply(l, "logout_success")
                  ELSE Goto(l, "lo_unset"),
            conv |-> cv]

\* A button press arrives: the user is resolved and the branch entered.
StartCallback(t, chat, req) ==
    /\ BotArrive(t, "cb", chat, req)
    /\ \E found \in IF GetUserByChat(chat) = {} THEN {{}}
                    ELSE {{u} : u \in GetUserByChat(chat)} :
         LET r == CbEnter([NewTask("cb", chat, req) EXCEPT !.user = found],
                          conv[chat])
         IN  /\ Set(t, r.l)
             /\ conv' = [conv EXCEPT ![chat] = r.conv]
    /\ UNCHANGED <<users, records, provider, nextId, nextCf>>

\* cmd_start: the flows' keys are popped, then the menu is shown.
CmdStart(t, chat) ==
    /\ BotArrive(t, "cmd_start", chat, NoReq)
    /\ conv' = [conv EXCEPT ![chat] = ClearFlows(@)]
    /\ Set(t, Reply(NewTask("cmd_start", chat, NoReq), "welcome"))
    /\ UNCHANGED <<users, records, provider, nextId, nextCf>>

\* add_start: the quota check that opens the add flow.
AsCount(t) ==
    /\ At(t, "as_count")
    /\ LET l == task[t]
           u == The(l.user)
       IN  IF CountDocuments(u.id) >= u.record_limit
           THEN Set(t, Finish(l, [Resp(0, "add_limit_reached")
                                    EXCEPT !.limit = u.record_limit]))
           ELSE Set(t, Reply(l, "add_choose_type"))
    /\ UNCHANGED <<users, records, provider, nextId, nextCf, conv>>

\* records: the list of the linked account's records.
RlFind(t) ==
    /\ At(t, "rl_find")
    /\ LET l == task[t]
           listed == FindByOwner(The(l.user).id, ListCap100)
       IN  Set(t, Finish(l, [Resp(0, IF listed = {} THEN "no_records"
                                     ELSE "records_title")
                               EXCEPT !.shown = listed]))
    /\ UNCHANGED <<users, records, provider, nextId, nextCf, conv>>

\* del_<id>: the confirmation prompt, which names the record's type, full
\* name and content.
DvFind(t) ==
    /\ At(t, "dv_find")
    /\ LET l == task[t]
           found == FindRecord(l.req.id)
       IN  IF found = {}
           THEN Set(t, Reply(l, "delete_not_found"))
           ELSE Set(t, Finish(l, [Resp(0, "delete_confirm")
                                    EXCEPT !.shown = found]))
    /\ UNCHANGED <<users, records, provider, nextId, nextCf, conv>>

\* confirm_del_<id>
CdFind(t) ==
    /\ At(t, "cd_find")
    /\ LET l == task[t]
           found == FindOwnedRecord(l.req.id, The(l.user).id)
       IN  IF found = {}
           THEN Set(t, Reply(l, "delete_not_found"))
           ELSE Set(t, Goto([l EXCEPT !.rec = found], "cd_cf"))
    /\ UNCHANGED <<users, records, provider, nextId, nextCf, conv>>

\* The provider failure is caught and shown as the bot's error message.
CdCf(t) ==
    /\ At(t, "cd_cf")
    /\ LET l == [task[t] EXCEPT !.cfcalls = @ + 1]
           cf == The(l.rec).cf_record_id
       IN  \E ok \in CfOutcomes(cf) :
              /\ Set(t, BotCatch(CfDeleteResult(l, ok, "cd_del")))
              /\ provider' = IF ok THEN CfDelete(provider, cf) ELSE provider
    /\ UNCHANGED <<users, records, nextId, nextCf, conv>>

CdDel(t) ==
    /\ At(t, "cd_del")
    /\ records' = DeleteRecordById(records, task[t].req.id)
    /\ Set(t, Goto(task[t], "cd_dec"))
    /\ UNCHANGED <<users, provider, nextId, nextCf, conv>>

CdDec(t) ==
    /\ At(t, "cd_dec")
    /\ users' = IncRecordCount(users, The(task[t].user).id, -1)
    /\ Set(t, Goto(task[t], "cd_log"))
    /\ UNCHANGED <<records, provider, nextId, nextCf, conv>>

CdLog(t) ==
    /\ At(t, "cd_log")
    /\ LET l == task[t] IN
       Set(t, Reply([l EXCEPT !.log = LogEntry(The(l.user), "record_deleted")],
                    "delete_success"))
    /\ UNCHANGED <<users, records, provider, nextId, nextCf, conv>>

\* confirm_logout: the account's telegram_chat_id is unset.
LoUnset(t) ==
    /\ At(t, "lo_unset")
    /\ LET uid == The(task[t].user).id IN
       users' = IF uid \in DOMAIN users
                THEN [users EXCEPT ![uid].telegram_chat_id = {}]
                ELSE users
    /\ Set(t, Reply(task[t], "logout_success"))
    /\ UNCHANGED <<records, provider, nextId, nextCf, conv>>

----------------------------------------------------------------------------
(* message_handler: the login flow and the add flow *)

\* A name of 64 characters.
LongName == "aaaaaaaaaaaaaaaaaaaaaaaaaaaaaaaaaaaaaaaaaaaaaaaaaaaaaaaaaaaaaaaa"

\* text.lower().replace(" ", ""), on the texts the model types.
NormalizeName(text) ==
    CASE text = "H" -> "h"
      [] text = "h h" -> "hh"
      [] OTHER -> text

NameInvalid(name) == name = "" \/ Len(name) > 63

\* The full name the add flow stores.
BotFullName(name) == name \o "." \o CF_ZONE_DOMAIN

\* message_handler from its start to its first await: the task's next state
\* and the chat's user_data.
MsgEnter(l, cv) ==
    CASE cv.login_step = "email" ->
           [l |-> Reply(l, "login_enter_password"),
            conv |-> [cv EXCEPT !.login_email = l.req.text,
                                !.login_step = "password"]]
      [] cv.login_step = "password" ->
           [l |-> Goto([l EXCEPT !.req.user_id = cv.login_email], "lg_find"),
            conv |-> [cv EXCEPT !.login_email = "", !.login_step = ""]]
      [] cv.login_step = "" /\ cv.add_step = "" ->
           [l |-> Reply(l, ""), conv |-> cv]
      [] OTHER ->
           [l |-> Goto(l, "mh_user"), conv |-> cv]

\* A text message arrives.
StartMessage(t, chat, req) ==
    /\ BotArrive(t, "msg", chat, req)
    /\ LET r == MsgEnter(NewTask("msg", chat, req), conv[chat]) IN
       /\ Set(t, r.l)
       /\ conv' = [conv EXCEPT ![chat] = r.conv]
    /\ UNCHANGED <<users, records, provider, nextId, nextCf>>

\* The password step: the account is found by email (the model's user id) and
\* the password verified (req.ok: the text is the account's password).
LgFind(t) ==
    /\ At(t, "lg_find")
    /\ LET l == task[t]
           found == FindUser(l.req.user_id)
       IN  IF found = {} \/ ~l.req.ok
           THEN Set(t, Reply(l, "login_fail"))
           ELSE Set(t, Goto([l EXCEPT !.user = found], "lg_link"))
    /\ UNCHANGED <<users, records, provider, nextId, nextCf, conv>>

LgLink(t) ==
    /\ At(t, "lg_link")
    /\ LET l == task[t]
           uid == The(l.user).id
       IN  /\ users' = IF uid \in DOMAIN users
                       THEN [users EXCEPT ![uid].telegram_chat_id = {l.actor}]
                       ELSE users
           /\ Set(t, Reply([l EXCEPT !.log = LogEntry(The(l.user),
                                                      "telegram_linked")],
                           "login_success"))
    /\ UNCHANGED <<records, provider, nextId, nextCf, conv>>

\* The add flow: the user is resolved, then the step taken.
MhUser(t) ==
    /\ At(t, "mh_user")
    /\ LET l == task[t]
           chat == l.actor
           cv == conv[chat]
           name == NormalizeName(l.req.text)
       IN  \E found \in IF GetUserByChat(chat) = {} THEN {{}}
                        ELSE {{u} : u \in GetUserByChat(chat)} :
             IF found = {}
             THEN /\ Set(t, Reply(l, "not_logged_in"))
                  /\ conv' = [conv EXCEPT ![chat] =
                                 [cv EXCEPT !.add_step = "", !.add_type = "",
                                            !.add_name = ""]]
             ELSE IF cv.add_step = "name"
             THEN IF NameInvalid(name)
                  THEN /\ Set(t, Reply(l, "add_name_invalid"))
                       /\ UNCHANGED conv
                  ELSE /\ Set(t, Reply(l, "add_name_confirm"))
                       /\ conv' = [conv EXCEPT ![chat] =
                                      [cv EXCEPT !.add_name = name,
                                                 !.add_step = "value"]]
             ELSE IF cv.add_step = "value"
             THEN /\ Set(t, Goto([l EXCEPT !.user = found,
                                    !.req.name = cv.add_name,
                                    !.req.record_type = cv.add_type,
                                    !.req.content = {l.req.text},
                                    !.full_name = BotFullName(cv.add_name)],
                                 "mv_dup"))
                  /\ conv' = [conv EXCEPT ![chat] = NoConv]
             ELSE /\ Set(t, Reply(l, ""))
                  /\ UNCHANGED conv
    /\ UNCHANGED <<users, records, provider, nextId, nextCf>>

MvDup(t) ==
    /\ At(t, "mv_dup")
    /\ LET l == task[t] IN
       IF FindDuplicate(l.full_name, l.req.record_type) # {}
       THEN Set(t, Finish(l, [Resp(0, "add_exists")
                                EXCEPT !.full_name = l.full_name,
                                       !.record_type = l.req.record_type]))
       ELSE Set(t, Goto(l, "mv_cf"))
    /\ UNCHANGED <<users, records, provider, nextId, nextCf, conv>>

\* cf_create_record with its default ttl and proxied; a failure is caught and
\* shown as the bot's error message.
MvCf(t) ==
    /\ At(t, "mv_cf")
    /\ LET l == [task[t] EXCEPT !.cfcalls = @ + 1]
           r == l.req
       IN  \E ok \in CfCreateOutcomes :
              /\ Set(t, BotCatch(CfCreateResult(l, ok, nextCf, "mv_insert")))
              /\ IF ok
                 THEN /\ provider' = CfCreate(provider, nextCf, r.name,
                                              r.record_type, The(r.content), 1,
                                              FALSE)
                      /\ nextCf' = nextCf + 1
                 ELSE UNCHANGED <<provider, nextCf>>
    /\ UNCHANGED <<users, records, nextId, conv>>

MvInsert(t) ==
    /\ At(t, "mv_insert")
    /\ LET l == task[t]
           r == l.req
           doc == RecordDoc(nextId, l.cf_id, The(l.user).id, r.name,
                            l.full_name, r.record_type, The(r.content), 1,
                            FALSE)
       IN  /\ records' = InsertRecord(records, doc)
           /\ Set(t, Goto([l EXCEPT !.rec = {doc}], "mv_inc"))
    /\ nextId' = nextId + 1
    /\ UNCHANGED <<users, provider, nextCf, conv>>

MvInc(t) ==
    /\ At(t, "mv_inc")
    /\ users' = IncRecordCount(users, The(task[t].user).id, 1)
    /\ Set(t, Goto(task[t], "mv_log"))
    /\ UNCHANGED <<records, provider, nextId, nextCf, conv>>

MvLog(t) ==
    /\ At(t, "mv_log")
    /\ LET l == task[t] IN
       Set(t, Finish([l EXCEPT !.log = LogEntry(The(l.user), "record_created")],
                     [Resp(0, "add_success") EXCEPT !.shown = l.rec]))
    /\ UNCHANGED <<users, records, provider, nextId, nextCf, conv>>

----------------------------------------------------------------------------
(* The initial state: the seeded admin and two registered accounts on the     *)
(* free plan, no record, no chat linked.                                      *)

Init ==
    /\ users = [u \in UserIds |->
                  IF u = AdminUser
                  THEN UserDoc(u, "admin", PLAN_LIMITS_enterprise)
                  ELSE UserDoc(u, "user", PLAN_LIMITS_free)]
    /\ records = {}
    /\ provider = {}
    /\ nextId = 1
    /\ nextCf = 1
    /\ conv = [c \in Chats |-> NoConv]
    /\ task = [t \in Tasks |-> IdleTask]
    /\ plans = DEFAULT_PLANS
    /\ plan_limits = DEFAULT_PLANS
    /\ settings = DefaultSettings
    /\ nextUser = 1
    /\ bot = NoBot

----------------------------------------------------------------------------
(* Requests *)

RecordIds == 1 .. MaxRecordIds

CreateReq(name, ty, content, ttl, proxied) ==
    [NoReq EXCEPT !.name = name, !.record_type = ty, !.content = {content},
                  !.ttl = {ttl}, !.proxied = {proxied}]

AdminCreateReq(u, name, ty, content, ttl, proxied) ==
    [CreateReq(name, ty, content, ttl, proxied) EXCEPT !.user_id = u]

UpdateReq(i, content, ttl, proxied) ==
    [NoReq EXCEPT !.id = i, !.content = content, !.ttl = ttl,
                  !.proxied = proxied]

IdReq(i) == [NoReq EXCEPT !.id = i]

UserReq(u) == [NoReq EXCEPT !.user_id = u]

UsersReq(us) == [NoReq EXCEPT !.user_ids = us]

RegisterReq(email, password, name, code) ==
    [NoReq EXCEPT !.email = email, !.password = password, !.name = name,
                  !.referral_code = code]

SettingsReq(bonus, limit) == [NoReq EXCEPT !.bonus = bonus, !.limit = limit]

\* A plan id with, for a creation or an edit, the record_limit and the name.
PlanReq(p, limit, name) ==
    [NoReq EXCEPT !.plan = p, !.limit = limit, !.name = name]

AssignReq(u, p) == [NoReq EXCEPT !.user_id = u, !.plan = p]

BulkAssignReq(ids, p) == [NoReq EXCEPT !.user_ids = ids, !.plan = p]

CallbackReq(data, i, ty) ==
    [NoReq EXCEPT !.data = data, !.id = i, !.record_type = ty]

MessageReq(text, ok) == [NoReq EXCEPT !.text = text, !.ok = ok]

\* What the chat types at its step of a flow: an email, a password (right or
\* wrong), a name, a content.
MessageReqs(chat, emails, names, contents) ==
    LET cv == conv[chat] IN
    CASE cv.login_step = "email" -> {MessageReq(e, TRUE) : e \in emails}
      [] cv.login_step = "password" ->
           {MessageReq("password", b) : b \in BOOLEAN}
      [] cv.add_step = "name" -> {MessageReq(n, TRUE) : n \in names}
      [] OTHER -> {MessageReq(c, TRUE) : c \in contents}

----------------------------------------------------------------------------
(* The record lifecycle, one operation at a time: creation and deletion by  *)
(* the self-service API, the admin API and the bot (from a chat linked to   *)
(* u1), and the deletion of accounts.                                       *)

InitLinked ==
    /\ Init!2 /\ Init!3 /\ Init!4 /\ Init!5 /\ Init!6 /\ Init!7
    /\ Init!8 /\ Init!9 /\ Init!10 /\ Init!11 /\ Init!12
    /\ users = [u \in UserIds |->
                  IF u = AdminUser
                  THEN UserDoc(u, "admin", PLAN_LIMITS_enterprise)
                  ELSE [UserDoc(u, "user", PLAN_LIMITS_free)
                          EXCEPT !.telegram_chat_id =
                                    IF u = "u1" THEN {"chat1"} ELSE {}]]

LifeRequest(t) ==
    \/ \E a \in RegularUsers, n \in {"h", "@"}, ty \in {"A", "TXT"} :
          StartApi(t, "create_record", a, CreateReq(n, ty, "c1", 1, FALSE))
    \/ \E a \in RegularUsers, i \in RecordIds :
          StartApi(t, "delete_record", a, IdReq(i))
    \/ \E u \in RegularUsers, n \in {"h", "@"} :
          StartApi(t, "admin_create_record", AdminUser,
                   AdminCreateReq(u, n, "A", "c1", 1, FALSE))
    \/ \E a \in {AdminUser, "u1"}, i \in RecordIds :
          StartApi(t, "admin_delete_record", a, IdReq(i))
    \/ \E u \in UserIds :
          StartApi(t, "admin_delete_user", AdminUser, UserReq(u))
    \/ \E c \in Chats, d \in {"add_start", "add_type"} :
          StartCallback(t, c, CallbackReq(d, 0, "A"))
    \/ \E c \in Chats, i \in RecordIds :
          StartCallback(t, c, CallbackReq("confirm_del", i, ""))
    \/ \E c \in Chats :
          \E r \in MessageReqs(c, {}, {"h", "H", "@", LongName}, {"c1"}) :
             StartMessage(t, c, r)

LifeStep(t) ==
    \/ CrCount(t) \/ CrDup(t) \/ CrCf(t) \/ CrInsert(t) \/ CrInc(t) \/ CrLog(t)
    \/ DeFind(t) \/ DeCf(t) \/ DeDel(t) \/ DeDec(t) \/ DeLog(t)
    \/ AcUser(t) \/ AcCf(t) \/ AcInsert(t) \/ AcInc(t)
    \/ AdFind(t) \/ AdCf(t) \/ AdDel(t) \/ AdDec(t)
    \/ DuFind(t) \/ DuList(t) \/ DuCf(t) \/ DuDelMany(t) \/ DuDelUser(t)
    \/ AsCount(t)
    \/ CdFind(t) \/ CdCf(t) \/ CdDel(t) \/ CdDec(t) \/ CdLog(t)
    \/ MhUser(t) \/ MvDup(t) \/ MvCf(t) \/ MvInsert(t) \/ MvInc(t) \/ MvLog(t)

NextLife == \E t \in {1} : LifeRequest(t) \/ LifeStep(t) \/ Return(t)

SpecLife == InitLinked /\ [][NextLife]_vars

----------------------------------------------------------------------------
(* Properties of the sequential life of records (SpecLife) *)

\* The task's response has been sent and the task has not yet returned.
Done(t) == task[t].pc = "done"

\* The stores as they were when the task's request arrived.
Pre(t) == The(task[t].pre)

\* The number of records in recs that uid owns.
Owned(recs, uid) == Cardinality({r \in recs : r.user_id = uid})

\* The task is a record creation: self-service, by the admin, or the bot's
\* value step.
IsCreate(t) ==
    \/ task[t].op \in {"create_record", "admin_create_record"}
    \/ task[t].op = "msg" /\ task[t].req.content # {}

\* The task is the deletion of one record: self-service, by the admin, or the
\* bot's confirmation.
IsDelete(t) ==
    \/ task[t].op \in {"delete_record", "admin_delete_record"}
    \/ task[t].op = "cb" /\ task[t].req.data = "confirm_del"

\* The task created or deleted a record and answered with success.
RecordOpSucceeded(t) ==
    /\ Done(t)
    /\ \/ IsCreate(t) /\ task[t].resp.kind \in {"Created", "add_success"}
       \/ IsDelete(t) /\ task[t].resp.kind \in {"Deleted", "delete_success"}

\* C1: with operations run one after another, after every successful create
\* or delete of a record (self-service, admin or bot) every existing account's
\* record_count equals the number of stored records it owns.
C1_CountMatches ==
    \A t \in Tasks :
       RecordOpSucceeded(t) =>
          \A u \in DOMAIN users :
             users[u].record_count = Owned(records, u)

\* C1's case: the admin has deleted one of two records of an account, whose
\* count is now one.
C1_Witness ==
    \E t \in Tasks :
       /\ RecordOpSucceeded(t)
       /\ task[t].op = "admin_delete_record"
       /\ \E u \in RegularUsers :
             /\ u \in DOMAIN users
             /\ Owned(Pre(t).records, u) = 2
             /\ users[u].record_count = 1

\* The task is a self-service create by an existing account that owned at
\* least record_limit records when the request arrived.
CreateAtQuota(t) ==
    /\ Done(t)
    /\ task[t].op = "create_record"
    /\ task[t].actor \in DOMAIN Pre(t).users
    /\ Owned(Pre(t).records, task[t].actor)
          >= Pre(t).users[task[t].actor].record_limit

\* The task was refused with QuotaExceeded naming the account's limit, without
\* a provider call and without a change to the stores.
RefusedForQuota(t) ==
    /\ task[t].resp.status = 403
    /\ task[t].resp.kind = "QuotaExceeded"
    /\ task[t].resp.limit = Pre(t).users[task[t].actor].record_limit
    /\ task[t].cfcalls = 0
    /\ Snapshot = Pre(t)

\* C2 as stated: a self-service create by an account that owns at least
\* record_limit records always fails with QuotaExceeded.  It does not hold: a
\* request with an unsupported record type is refused as invalid input first.
C2_AsStated == \A t \in Tasks : CreateAtQuota(t) => RefusedForQuota(t)

\* C2: a self-service create of a supported record type by an account that
\* owns at least record_limit records always fails with QuotaExceeded (403,
\* the message naming the limit), makes no provider call and leaves the store
\* and the record_count unchanged.
C2_QuotaRefuses ==
    \A t \in Tasks :
       CreateAtQuota(t) /\ TypeSupported(task[t].req.record_type)
          => RefusedForQuota(t)

\* C2's case: an account with as many records as its limit has asked for
\* another one of a supported type and has been answered.
C2_Witness ==
    \E t \in Tasks :
       /\ CreateAtQuota(t)
       /\ TypeSupported(task[t].req.record_type)
       /\ Owned(records, task[t].actor) = PLAN_LIMITS_free
       /\ task[t].resp.status = 403

\* C3 as stated: in every state reached by completed operations no two
\* stored records share the pair (full_name, record_type).  It does not hold:
\* the admin's create checks nothing and the store has no such constraint.
C3_UniquePairs ==
    \A r1, r2 \in records :
       r1.full_name = r2.full_name /\ r1.record_type = r2.record_type
          => r1 = r2

\* The records that held the requested pair when the task's request arrived.
Clashing(t) ==
    {r \in Pre(t).records :
        /\ r.full_name = FullName(task[t].req.name)
        /\ r.record_type = task[t].req.record_type}

\* The task is a self-service create by an existing account of a pair that a
\* stored record already held.
CreateOfExisting(t) ==
    /\ Done(t)
    /\ task[t].op = "create_record"
    /\ task[t].actor \in DOMAIN Pre(t).users
    /\ Clashing(t) # {}

\* The task was refused with DuplicateRecord, without a provider call, and the
\* records that held the pair are as they were and listed for their owners.
RefusedAsDuplicate(t) ==
    /\ task[t].resp.status = 400
    /\ task[t].resp.kind = "DuplicateRecord"
    /\ task[t].cfcalls = 0
    /\ records = Pre(t).records
    /\ provider = Pre(t).provider
    /\ \A r \in Clashing(t) : r \in FindByOwner(r.user_id, ListCap100)

\* C4 as stated: a self-service create of an existing pair fails with
\* DuplicateRecord.  It does not hold: the quota is checked first, so a caller
\* at its limit is refused with QuotaExceeded.
C4_AsStated == \A t \in Tasks : CreateOfExisting(t) => RefusedAsDuplicate(t)

\* C4: a self-service create, by an account below its record limit, whose
\* (full_name, record_type) matches an existing record of any account fails
\* with DuplicateRecord, makes no provider call, and leaves the existing
\* record unchanged and retrievable by its owner.
C4_DuplicateRefuses ==
    \A t \in Tasks :
       /\ CreateOfExisting(t)
       /\ Owned(Pre(t).records, task[t].actor)
             < Pre(t).users[task[t].actor].record_limit
       => RefusedAsDuplicate(t)

\* C4's case: an account below its limit has asked for a pair that a record
\* of another account holds, and has been answered.
C4_Witness ==
    \E t \in Tasks :
       /\ CreateOfExisting(t)
       /\ \E r \in Clashing(t) : r.user_id # task[t].actor
       /\ Owned(Pre(t).records, task[t].actor) = 0
       /\ task[t].resp.kind = "DuplicateRecord"

\* The answer of a handler whose provider call failed: the provider error from
\* the API, the error message from the bot.
ProviderErrorSent(t) ==
    IF task[t].op \in {"msg", "cb"}
    THEN task[t].resp = Resp(0, "error")
    ELSE task[t].resp = Resp(400, "ProviderError")

\* C6: when the provider create call fails (self-service, admin or bot) the
\* operation aborts with the provider error, no record is inserted and no
\* record_count changes.
C6_CreateFailureAborts ==
    \A t \in Tasks :
       Done(t) /\ IsCreate(t) /\ task[t].cferr
          => /\ ProviderErrorSent(t)
             /\ records = Pre(t).records
             /\ users = Pre(t).users
             /\ provider = Pre(t).provider

\* C6's case: the bot's create of a new name has failed at the provider while
\* the provider would still have accepted it.
C6_Witness ==
    \E t \in Tasks :
       /\ Done(t) /\ IsCreate(t) /\ task[t].cferr
       /\ task[t].op = "msg"
       /\ nextCf <= MaxRecordIds

\* C8: when the provider delete call fails in a single-record delete
\* (self-service, admin or bot) the operation aborts with the provider error,
\* the record is retained and the owner's record_count is unchanged.
C8_DeleteFailureAborts ==
    \A t \in Tasks :
       Done(t) /\ IsDelete(t) /\ task[t].cferr
          => /\ ProviderErrorSent(t)
             /\ task[t].rec # {}
             /\ task[t].rec \subseteq records
             /\ records = Pre(t).records
             /\ users = Pre(t).users

\* C8's case: the admin's delete of a record has failed at the provider and
\* the record is still stored.
C8_Witness ==
    \E t \in Tasks :
       /\ Done(t) /\ IsDelete(t) /\ task[t].cferr
       /\ task[t].op = "admin_delete_record"
       /\ \E r \in records : r.id = task[t].req.id

----------------------------------------------------------------------------
(* The self-service API of two accounts, one operation at a time: creation,  *)
(* update with every combination of provided fields, and deletion.           *)

UpdateRequest(t) ==
    \/ \E a \in RegularUsers, n \in {"h", "@"} :
          StartApi(t, "create_record", a, CreateReq(n, "A", "c1", 1, FALSE))
    \/ \E a \in RegularUsers, i \in RecordIds :
          \E c \in {{}, {"c2"}}, ttl \in {{}, {300}}, px \in {{}, {TRUE}} :
             StartApi(t, "update_record", a, UpdateReq(i, c, ttl, px))
    \/ \E a \in RegularUsers, i \in RecordIds :
          StartApi(t, "delete_record", a, IdReq(i))

UpdateStep(t) ==
    \/ CrCount(t) \/ CrDup(t) \/ CrCf(t) \/ CrInsert(t) \/ CrInc(t) \/ CrLog(t)
    \/ UpFind(t) \/ UpCf(t) \/ UpSet(t) \/ UpLog(t)
    \/ DeFind(t) \/ DeCf(t) \/ DeDel(t) \/ DeDec(t) \/ DeLog(t)

NextUpdate == \E t \in {1} : UpdateRequest(t) \/ UpdateStep(t) \/ Return(t)

SpecUpdate == Init /\ [][NextUpdate]_vars

\* C7: when the provider update call fails the operation aborts with
\* ProviderError and the stored record keeps its content, ttl and proxied; no
\* local write happens before the provider confirms.
C7_UpdateFailureAborts ==
    \A t \in Tasks :
       /\ Done(t) /\ task[t].op = "update_record" /\ task[t].cferr
             => /\ task[t].resp = Resp(400, "ProviderError")
                /\ task[t].rec # {}
                /\ task[t].rec \subseteq records
                /\ Snapshot = Pre(t)
       /\ task[t].pc \in {"up_find", "up_cf"} => records = Pre(t).records

\* C7's case: an update that provides a new content, ttl and proxied has
\* failed at the provider, which holds the record.
C7_Witness ==
    \E t \in Tasks :
       /\ Done(t) /\ task[t].op = "update_record" /\ task[t].cferr
       /\ task[t].req.content = {"c2"}
       /\ task[t].req.ttl # {}
       /\ task[t].req.proxied # {}
       /\ \E r \in task[t].rec :
             /\ r.content = "c1"
             /\ \E p \in provider : p.id = r.cf_record_id

\* The task is a self-service update or delete by an existing account.
OwnUpdateOrDelete(t) ==
    /\ Done(t)
    /\ task[t].op \in {"update_record", "delete_record"}
    /\ task[t].actor \in DOMAIN Pre(t).users

\* The records with the requested id when the task's request arrived.
Named(t) == {r \in Pre(t).records : r.id = task[t].req.id}

\* C9: a self-service update or delete of a record owned by another account
\* returns NotFound exactly as for a non-existent id, makes no provider call
\* and changes nothing.
C9_ForeignIsNotFound ==
    \A t \in Tasks :
       /\ OwnUpdateOrDelete(t)
       /\ \A r \in Named(t) : r.user_id # task[t].actor
       => /\ task[t].resp = Resp(404, "Record not found")
          /\ task[t].cfcalls = 0
          /\ task[t].log = {}
          /\ Snapshot = Pre(t)

\* C9's case: an account has asked to update a stored record of another
\* account and has been answered.
C9_Witness ==
    \E t \in Tasks :
       /\ OwnUpdateOrDelete(t)
       /\ task[t].op = "update_record"
       /\ task[t].req.content # {}
       /\ \E r \in Named(t) : r.user_id # task[t].actor /\ r \in records

\* The task is a self-service update that answered with success.
Updated(t) ==
    /\ Done(t)
    /\ task[t].op = "update_record"
    /\ task[t].resp.status = 200

\* The value a field has after an update: the provided one, else the old one.
Expected(provided, old) == IF provided = {} THEN old ELSE The(provided)

\* C22: a successful update applies partial-update semantics: each of content,
\* ttl and proxied that is provided takes the provided value and each one
\* omitted keeps its previously stored value, both in the values sent to the
\* provider and in the values persisted locally.
C22_PartialUpdate ==
    \A t \in Tasks :
       Updated(t) =>
          \A old \in Named(t) :
             LET c == Expected(task[t].req.content, old.content)
                 ttl == Expected(task[t].req.ttl, old.ttl)
                 px == Expected(task[t].req.proxied, old.proxied)
             IN  /\ \E r \in records :
                       /\ r.id = old.id
                       /\ r.content = c /\ r.ttl = ttl /\ r.proxied = px
                 /\ \E q \in provider :
                       /\ q.id = old.cf_record_id
                       /\ q.content = c /\ q.ttl = ttl /\ q.proxied = px
                 /\ \E v \in task[t].resp.shown :
                       v.content = c /\ v.ttl = ttl /\ v.proxied = px

\* C22's case: an update that provides the content alone has succeeded on a
\* record whose ttl and proxied an earlier update had changed.
C22_Witness ==
    \E t \in Tasks :
       /\ Updated(t)
       /\ task[t].req.content = {"c2"}
       /\ task[t].req.ttl = {}
       /\ task[t].req.proxied = {}
       /\ \E old \in Named(t) :
             old.content = "c1" /\ old.ttl = 300 /\ old.proxied = TRUE

\* The identity of a record: what an update may not change.
Identity(r) ==
    [id |-> r.id, cf_record_id |-> r.cf_record_id, user_id |-> r.user_id,
     name |-> r.name, full_name |-> r.full_name,
     record_type |-> r.record_type]

\* C24: an update, whether it succeeds or fails, never changes a record's id,
\* provider id, owner, short name, full name or record type, never changes
\* any other record, and never changes any account's record_count or
\* record_limit; the provider call uses the stored type and full name.
C24_UpdateFrame ==
    \A t \in Tasks :
       task[t].op = "update_record" /\ task[t].pc # "idle" =>
          /\ {Identity(r) : r \in records}
                = {Identity(r) : r \in Pre(t).records}
          /\ Cardinality(records) = Cardinality(Pre(t).records)
          /\ \A r \in Pre(t).records :
                r.id # task[t].req.id \/ r.user_id # task[t].actor
                   => r \in records
          /\ users = Pre(t).users
          /\ \A q \in provider :
                \/ q \in Pre(t).provider
                \/ \E r \in Named(t) :
                      /\ r.user_id = task[t].actor
                      /\ q.id = r.cf_record_id
                      /\ q.type = r.record_type
                      /\ q.name = r.full_name
          /\ {q.id : q \in provider} = {q.id : q \in Pre(t).provider}

\* C24's case: an update has changed the content of one of two stored
\* records, and another update of it has failed at the provider.
C24_Witness ==
    \E t \in Tasks :
       /\ Done(t)
       /\ task[t].op = "update_record"
       /\ task[t].cferr
       /\ Cardinality(records) = 2
       /\ \E r \in records : r.id = task[t].req.id /\ r.content = "c2"
       /\ \E r \in records : r.id # task[t].req.id /\ r.content = "c1"

\* C27 as stated: for every stored record, created by any path (self-service
\* API, admin API, bot add flow), the stored full_name equals the name the
\* provider client sent to the provider for that record: the zone domain
\* itself when the short name is the apex marker "@", otherwise short name,
\* dot, zone domain.  It does not hold: the bot's add flow stores
\* "@." and the zone domain for the apex marker.
C27_StoredNameIsSentName ==
    \A r \in records :
       /\ r.full_name = IF r.name = "@" THEN CF_ZONE_DOMAIN
                        ELSE r.name \o "." \o CF_ZONE_DOMAIN
       /\ \A q \in provider : q.id = r.cf_record_id => q.name = r.full_name

\* The operations of the API that write a store.
MutatingOps ==
    {"create_record", "update_record", "delete_record", "register"}
       \cup AdminOps

\* C28 as stated: every successful mutating operation (record create, update,
\* delete; admin record create and delete; admin account deletion; plan and
\* settings changes; registration) appends one entry to the activity log
\* naming the actor and the action.  It does not hold: no admin handler calls
\* log_activity.
C28_MutationsLogged ==
    \A t \in Tasks :
       /\ Done(t)
       /\ task[t].op \in MutatingOps
       /\ task[t].resp.status \in {200, 201}
       => /\ Cardinality(task[t].log) = 1
          /\ \A e \in task[t].log :
                /\ e.action # ""
                /\ IF task[t].op = "register"
                   THEN e.user_id \in DOMAIN users \ DOMAIN Pre(t).users
                   ELSE e.user_id = task[t].actor

----------------------------------------------------------------------------
(* The same API when the client sends a successful update or delete a second *)
(* time, at once.                                                            *)

NextResubmit ==
    \E t \in {1} :
       \/ UpdateRequest(t)
       \/ UpdateStep(t)
       \/ /\ task[t].op \in {"update_record", "delete_record"}
          /\ task[t].first = {}
          /\ FollowUp(t, Authenticate(NewTask(task[t].op, task[t].actor,
                                              task[t].req)))
          /\ UNCHANGED <<users, records, provider, nextId, nextCf, conv>>
       \/ Return(t)

SpecResubmit == Init /\ [][NextResubmit]_vars

\* The task is the second submission of a request, and has been answered.
Resubmitted(t, op) ==
    /\ Done(t)
    /\ task[t].op = op
    /\ task[t].first # {}

\* C23: update is idempotent under resubmission: applying the same partial
\* payload to the same record twice in succession, both provider calls
\* succeeding, yields the same stored record state as applying it once.
C23_UpdateIdempotent ==
    \A t \in Tasks :
       Resubmitted(t, "update_record") /\ ~task[t].cferr
          => /\ task[t].resp.status = 200
             /\ records = The(task[t].first).records
             /\ provider = The(task[t].first).provider

\* C23's case: an update that provides the content alone has been applied
\* twice to a record whose stored content was another one.
C23_Witness ==
    \E t \in Tasks :
       /\ Resubmitted(t, "update_record")
       /\ ~task[t].cferr
       /\ task[t].req.content = {"c2"}
       /\ task[t].req.ttl = {}
       /\ task[t].req.proxied = {}
       /\ \E r \in records : r.id = task[t].req.id /\ r.content = "c2"

\* C25: delete is not idempotent: after a successful self-service delete of a
\* record, a second delete of the same record id by the same owner returns
\* NotFound, makes no provider call and does not decrement record_count
\* again.
C25_SecondDeleteNotFound ==
    \A t \in Tasks :
       Resubmitted(t, "delete_record")
          => /\ task[t].resp = Resp(404, "Record not found")
             /\ task[t].cfcalls = 0
             /\ users = The(task[t].first).users
             /\ Snapshot = The(task[t].first)

\* C25's case: the owner of two records has deleted one and has asked again
\* for the same deletion.
C25_Witness ==
    \E t \in Tasks :
       /\ Resubmitted(t, "delete_record")
       /\ users[task[t].actor].record_count = 1
       /\ Owned(records, task[t].actor) = 1

----------------------------------------------------------------------------
(* Two self-service creations in flight at once: the handlers interleave at  *)
(* their awaits.                                                             *)

RaceRequest(t) ==
    \E a \in RegularUsers, n \in {"h", "@"} :
       StartApi(t, "create_record", a, CreateReq(n, "A", "c1", 1, FALSE))

RaceStep(t) ==
    CrCount(t) \/ CrDup(t) \/ CrCf(t) \/ CrInsert(t) \/ CrInc(t) \/ CrLog(t)

NextRace == \E t \in Tasks : RaceRequest(t) \/ RaceStep(t) \/ Return(t)

SpecRace == Init /\ [][NextRace]_vars

\* The task is about to insert a record whose pair a stored record holds:
\* it passed the duplicate check before the other creation inserted.
SecondInsert(t) ==
    /\ task[t].pc = "cr_insert"
    /\ FindDuplicate(task[t].full_name, task[t].req.record_type) # {}

\* C5 as stated: when two creations of the same (full_name, record_type) both
\* pass the duplicate check before either inserts, the second local insert
\* fails and the store never holds two records with that pair.  It does not
\* hold: the store has no unique index on the pair, so the second insert
\* succeeds.
C5_SecondInsertFails ==
    [][\A t \in Tasks :
          SecondInsert(t) /\ task'[t] # task[t]
             => /\ records' = records
                /\ \A r1, r2 \in records' :
                      /\ r1.full_name = r2.full_name
                      /\ r1.record_type = r2.record_type
                      => r1 = r2]_vars

----------------------------------------------------------------------------
(* The bot and the accounts' records, one operation at a time: a chat that   *)
(* starts unlinked logs in as either account and logs out, lists records and *)
(* presses the delete buttons with any record id, while the accounts create  *)
(* records through the API.                                                  *)

BotRequest(t) ==
    \/ \E a \in RegularUsers, n \in {"h", "@"} :
          StartApi(t, "create_record", a, CreateReq(n, "A", "c1", 1, FALSE))
    \/ \E c \in Chats : CmdStart(t, c)
    \/ \E c \in Chats, d \in {"help_login", "records", "confirm_logout"} :
          StartCallback(t, c, CallbackReq(d, 0, ""))
    \/ \E c \in Chats, d \in {"del", "confirm_del"}, i \in RecordIds :
          StartCallback(t, c, CallbackReq(d, i, ""))
    \/ \E c \in Chats :
          \E r \in MessageReqs(c, RegularUsers, {}, {"c1"}) :
             StartMessage(t, c, r)

BotStep(t) ==
    \/ CrCount(t) \/ CrDup(t) \/ CrCf(t) \/ CrInsert(t) \/ CrInc(t) \/ CrLog(t)
    \/ RlFind(t) \/ DvFind(t)
    \/ CdFind(t) \/ CdCf(t) \/ CdDel(t) \/ CdDec(t) \/ CdLog(t)
    \/ LoUnset(t) \/ LgFind(t) \/ LgLink(t)

NextBot == \E t \in {1} : BotRequest(t) \/ BotStep(t) \/ Return(t)

SpecBot == Init /\ [][NextBot]_vars

\* The ids of the accounts linked to the task's chat when its request arrived.
Linked(t) ==
    {u \in DOMAIN Pre(t).users :
        task[t].actor \in Pre(t).users[u].telegram_chat_id}

\* C10 as stated: through the bot a chat can view the details of a record or
\* delete it only if the record is owned by the account linked to the chat;
\* a del or confirm_del callback that names a record of another account, or
\* that comes from a chat with no linked account, reveals nothing about the
\* record and changes nothing.  It does not hold: the del callback looks the
\* record up by its id alone and shows its type, full name and content.
C10_OnlyOwnRecords ==
    \A t \in Tasks :
       Done(t) /\ task[t].op = "cb"
          => /\ \A r \in task[t].resp.shown : r.user_id \in Linked(t)
             /\ \A r \in Pre(t).records \ records : r.user_id \in Linked(t)
             /\ /\ task[t].req.data \in {"del", "confirm_del"}
                /\ \A r \in Named(t) : r.user_id \notin Linked(t)
                => /\ task[t].resp.shown = {}
                   /\ Snapshot = Pre(t)

----------------------------------------------------------------------------
(* The admin's deletion of accounts, one operation at a time: the admin      *)
(* creates records for the two accounts and deletes accounts singly and in   *)
(* bulk, while the provider fails any of the delete calls.                   *)

PurgeRequest(t) ==
    \/ \E u \in RegularUsers, n \in {"h", "@"} :
          StartApi(t, "admin_create_record", AdminUser,
                   AdminCreateReq(u, n, "A", "c1", 1, FALSE))
    \/ \E a \in {AdminUser, "u1"}, u \in UserIds :
          StartApi(t, "admin_delete_user", a, UserReq(u))
    \/ \E us \in {<<"u1", "u2">>, <<AdminUser, "u2">>, <<"u1", "u1">>} :
          StartApi(t, "admin_bulk_delete_users", AdminUser, UsersReq(us))

PurgeStep(t) ==
    \/ AcUser(t) \/ AcCf(t) \/ AcInsert(t) \/ AcInc(t)
    \/ DuFind(t) \/ DuList(t) \/ DuCf(t) \/ DuDelMany(t) \/ DuDelUser(t)
    \/ BdFind(t) \/ BdList(t) \/ BdCf(t) \/ BdDelMany(t) \/ BdDelUser(t)

NextPurge == \E t \in {1} : PurgeRequest(t) \/ PurgeStep(t) \/ Return(t)

SpecPurge == Init /\ [][NextPurge]_vars

\* The ids the admin's deletion names.
Targets(t) ==
    IF task[t].op = "admin_delete_user"
    THEN {task[t].req.user_id}
    ELSE {task[t].req.user_ids[i] : i \in DOMAIN task[t].req.user_ids}

\* The named accounts that existed and were no admins when the request
\* arrived.
Doomed(t) ==
    {u \in Targets(t) \cap DOMAIN Pre(t).users : Pre(t).users[u].role # "admin"}

\* The task is a deletion of accounts, single or bulk, asked by an admin.
AdminPurge(t) ==
    /\ Done(t)
    /\ task[t].op \in {"admin_delete_user", "admin_bulk_delete_users"}
    /\ task[t].actor \in DOMAIN Pre(t).users
    /\ Pre(t).users[task[t].actor].role = "admin"

\* C11: the admin's deletion of a non-admin account removes all of the
\* account's local records and the account itself even when any of the
\* provider delete calls fail; the failures are not raised and the operation
\* reports success.
C11_PurgeCompletes ==
    \A t \in Tasks :
       AdminPurge(t) /\ Doomed(t) # {}
          => /\ task[t].resp.status = 200
             /\ \A u \in Doomed(t) :
                   /\ u \notin DOMAIN users
                   /\ Owned(records, u) = 0

\* C11's case: a bulk deletion has removed an account with two records while
\* a provider delete call failed, so that the provider still holds a record.
C11_Witness ==
    \E t \in Tasks :
       /\ AdminPurge(t)
       /\ task[t].op = "admin_bulk_delete_users"
       /\ task[t].cferr
       /\ \E u \in Doomed(t) : Owned(Pre(t).records, u) = 2
       /\ provider # {}

----------------------------------------------------------------------------
(* The deletion of an account that owns one record more than the fetch bound *)
(* of its deletion, with a provider that fails no call.  The account is on   *)
(* the enterprise plan and got its last record from the admin.               *)

ManyRecords == ListCap500 + 1

\* The k-th record of the account and the provider's record for it.
ManyRecord(k) ==
    RecordDoc(k, k, "u2", "h" \o ToString(k),
              FullName("h" \o ToString(k)), "A", "c1", 1, FALSE)

ManyProvider ==
    {[id |-> k, type |-> "A", name |-> CfFullName("h" \o ToString(k)),
      content |-> "c1", ttl |-> 1, proxied |-> FALSE] : k \in 1 .. ManyRecords}

InitMany ==
    /\ users = [u \in UserIds |->
                  IF u = "u2"
                  THEN [UserDoc(u, "user", PLAN_LIMITS_enterprise)
                          EXCEPT !.plan = "enterprise",
                                 !.record_count = ManyRecords]
                  ELSE Init!1!2[u]]
    /\ records = {ManyRecord(k) : k \in 1 .. ManyRecords}
    /\ provider = ManyProvider
    /\ nextId = ManyRecords + 1
    /\ nextCf = ManyRecords + 1
    /\ Init!6 /\ Init!7 /\ Init!8 /\ Init!9 /\ Init!10 /\ Init!11 /\ Init!12

\* The provider fails no call of the task.
Reliable(t) == task'[t].cferr = FALSE

NextMany ==
    \E t \in {1} :
       \/ StartApi(t, "admin_delete_user", AdminUser, UserReq("u2"))
       \/ StartApi(t, "admin_bulk_delete_users", AdminUser, UsersReq(<<"u2">>))
       \/ DuFind(t) \/ DuList(t) \/ DuDelMany(t) \/ DuDelUser(t)
       \/ DuCf(t) /\ Reliable(t)
       \/ BdFind(t) \/ BdList(t) \/ BdDelMany(t) \/ BdDelUser(t)
       \/ BdCf(t) /\ Reliable(t)
       \/ Return(t)

SpecMany == InitMany /\ [][NextMany]_vars

\* C12 as stated: the admin's deletion of an account issues a provider delete
\* for every record it removes from the local store, for any number of owned
\* records; so when no provider call fails, no provider record of the deleted
\* account survives.  It does not hold: the deletion fetches at most 500
\* records for the provider calls and then removes all of them locally.
C12_EveryRecordDeletedAtProvider ==
    \A t \in Tasks :
       AdminPurge(t) /\ Doomed(t) # {}
          => /\ task[t].cfcalls = Cardinality(Pre(t).records \ records)
             /\ ~task[t].cferr =>
                   \A r \in Pre(t).records \ records :
                      \A p \in provider : p.id # r.cf_record_id

----------------------------------------------------------------------------
(* The admin's create and the quota of its target (SpecLife) *)

\* The task is a create by the admin, of a supported type, for an existing
\* account that owned at least record_limit records when the request arrived.
AdminCreateAtQuota(t) ==
    /\ Done(t)
    /\ task[t].op = "admin_create_record"
    /\ task[t].actor \in DOMAIN Pre(t).users
    /\ Pre(t).users[task[t].actor].role = "admin"
    /\ TypeSupported(task[t].req.record_type)
    /\ task[t].req.user_id \in DOMAIN Pre(t).users
    /\ Owned(Pre(t).records, task[t].req.user_id)
          >= Pre(t).users[task[t].req.user_id].record_limit

\* C13 as stated: the admin's create follows the logic of the self-service
\* create for its target owner: when the target owns record_limit records or
\* more it fails with QuotaExceeded and changes neither the provider, the
\* record store nor the counter.  It does not hold: admin_create_record has
\* no quota check.
C13_AdminCreateQuota ==
    \A t \in Tasks :
       AdminCreateAtQuota(t)
          => /\ task[t].resp.status = 403
             /\ task[t].resp.kind = "QuotaExceeded"
             /\ Snapshot = Pre(t)

----------------------------------------------------------------------------
(* The quota under the self-service API and the bot, one operation at a      *)
(* time and without the admin: account u1, registered while the settings'    *)
(* default_free_records was 1, is linked to the chat.                        *)

QuotaLimit == 1

InitQuota ==
    /\ Init!2 /\ Init!3 /\ Init!4 /\ Init!5 /\ Init!6 /\ Init!7
    /\ Init!8 /\ Init!9 /\ Init!10 /\ Init!11 /\ Init!12
    /\ users = [u \in UserIds |->
                  IF u = "u1"
                  THEN [UserDoc(u, "user", QuotaLimit)
                          EXCEPT !.telegram_chat_id = {"chat1"}]
                  ELSE Init!1!2[u]]

NextQuota ==
    \E t \in {1} :
       \/ \E n \in {"h", "@"} :
             StartApi(t, "create_record", "u1",
                      CreateReq(n, "A", "c1", 1, FALSE))
       \/ \E i \in RecordIds : StartApi(t, "delete_record", "u1", IdReq(i))
       \/ \E d \in {"add_start", "add_type"} :
             StartCallback(t, "chat1", CallbackReq(d, 0, "A"))
       \/ \E r \in MessageReqs("chat1", {}, {"h", "@"}, {"c1"}) :
             StartMessage(t, "chat1", r)
       \/ CrCount(t) \/ CrDup(t) \/ CrCf(t) \/ CrInsert(t) \/ CrInc(t)
       \/ CrLog(t)
       \/ DeFind(t) \/ DeCf(t) \/ DeDel(t) \/ DeDec(t) \/ DeLog(t)
       \/ AsCount(t)
       \/ MhUser(t) \/ MvDup(t) \/ MvCf(t) \/ MvInsert(t) \/ MvInc(t)
       \/ MvLog(t)
       \/ Return(t)

SpecQuota == InitQuota /\ [][NextQuota]_vars

\* The same account under the self-service create, the admin's create for
\* it and the delete, one operation at a time.
NextAdminQuota ==
    \E t \in {1} :
       \/ \E n \in {"h", "@"} :
             StartApi(t, "create_record", "u1",
                      CreateReq(n, "A", "c1", 1, FALSE))
       \/ \E n \in {"h", "@"}, ty \in {"A", "MX"} :
             StartApi(t, "admin_create_record", AdminUser,
                      AdminCreateReq("u1", n, ty, "c1", 1, FALSE))
       \/ \E i \in RecordIds : StartApi(t, "delete_record", "u1", IdReq(i))
       \/ CrCount(t) \/ CrDup(t) \/ CrCf(t) \/ CrInsert(t) \/ CrInc(t)
       \/ CrLog(t)
       \/ AcUser(t) \/ AcCf(t) \/ AcInsert(t) \/ AcInc(t)
       \/ DeFind(t) \/ DeCf(t) \/ DeDel(t) \/ DeDec(t) \/ DeLog(t)
       \/ Return(t)

SpecAdminQuota == InitQuota /\ [][NextAdminQuota]_vars

\* C14 as stated: the bot's add flow creates a record only if the linked
\* account then owns fewer records than its record_limit; so, with the
\* self-service API and the bot run one operation at a time and no admin
\* action, no account ever owns more records than its record_limit.  It does
\* not hold: the flow checks the quota when it opens (add_start) and not when
\* the value arrives.
C14_WithinQuota ==
    /\ \A u \in DOMAIN users : Owned(records, u) <= users[u].record_limit
    /\ \A t \in Tasks :
          task[t].pc = "mv_insert"
             => \A u \in task[t].user : Owned(records, u.id) < u.record_limit

----------------------------------------------------------------------------
(* Registration and the referral ledger, one operation at a time: accounts   *)
(* register with and without a referral code, the admin changes the bonus    *)
(* and deletes accounts, and the process may die during a registration.      *)

MaxRegistrations == 2

NextRegister ==
    \E t \in {1} :
       \/ /\ nextUser <= MaxRegistrations
          /\ \E e \in {"a@gmail.com", "B@GMAIL.COM", "c@example.com",
                       "u1@gmail.com"},
                c \in {{}, {"ref-u1"}, {"ref-n1"}, {"bogus"}} :
                StartRegister(t, RegisterReq(e, "secret", "Al", c))
       \/ /\ nextUser <= MaxRegistrations
          /\ \E pw \in {"short", "secret"}, n \in {"A", "Al"} :
                StartRegister(t, RegisterReq("a@gmail.com", pw, n, {}))
       \/ \E b \in {{}, {2}} :
             StartApi(t, "admin_update_settings", AdminUser,
                      SettingsReq(b, {}))
       \/ \E u \in {"u1", NewUserId(1)} :
             StartApi(t, "admin_delete_user", AdminUser, UserReq(u))
       \/ RgEmail(t) \/ RgSettings(t) \/ RgCode(t) \/ RgReferrer(t)
       \/ RgCredit(t) \/ RgInsert(t) \/ RgLog(t)
       \/ Crash(t)
       \/ StSet(t) \/ StFind(t)
       \/ DuFind(t) \/ DuList(t) \/ DuDelMany(t) \/ DuDelUser(t)
       \/ Return(t)

SpecRegister == Init /\ [][NextRegister]_vars

\* The task is a registration that answered with success.
Registered(t) ==
    /\ Done(t)
    /\ task[t].op = "register"
    /\ task[t].resp.status = 200

\* The accounts whose referral code the registration carried, as they were
\* when the request arrived.
Referrers(t) ==
    {u \in DOMAIN Pre(t).users :
        Pre(t).users[u].referral_code \in task[t].req.referral_code}

\* C15: a successful registration carrying a referral code that matches
\* existing account A, with configured bonus b, increases A's record_limit
\* and referral_bonus by exactly b and A's referral_count by exactly 1, and
\* stores the new account with referred_by equal to A's id; with no code or a
\* non-matching code no account other than the new one changes and
\* referred_by is null.
C15_ReferralCredit ==
    \A t \in Tasks :
       Registered(t) =>
          LET before == Pre(t).users
              b == Pre(t).settings.referral_bonus_per_invite
              new == The(task[t].new).id
          IN  /\ DOMAIN users = DOMAIN before \cup {new}
              /\ new \notin DOMAIN before
              /\ \A u \in DOMAIN before :
                    users[u] =
                       IF u \in Referrers(t)
                       THEN [before[u] EXCEPT !.record_limit = @ + b,
                                              !.referral_bonus = @ + b,
                                              !.referral_count = @ + 1]
                       ELSE before[u]
              /\ users[new].referred_by = Referrers(t)

\* C15's case: with the bonus configured as 2, an account has registered
\* with the code of an account that had already referred another one.
C15_Witness ==
    \E t \in Tasks :
       /\ Registered(t)
       /\ Pre(t).settings.referral_bonus_per_invite = 2
       /\ \E a \in Referrers(t) :
             /\ Pre(t).users[a].referral_count = 1
             /\ users[a].referral_count = 2

\* C16: the referrer is credited before the referred account is persisted:
\* in every reachable state, a crash between the two writes included, for
\* every existing account A the number of stored accounts whose referred_by
\* is A's id is at most A's referral_count.
C16_CreditedBeforeReferred ==
    \A a \in DOMAIN users :
       Cardinality({u \in DOMAIN users : users[u].referred_by = {a}})
          <= users[a].referral_count

\* C16's case: the process has died between the credit and the insert, so
\* that an account has a referral_count of 1 and no referred account, and a
\* later registration has been referred by it.
C16_Witness ==
    \E a \in DOMAIN users :
       /\ users[a].referral_count = 2
       /\ Cardinality({u \in DOMAIN users : users[u].referred_by = {a}}) = 1
       /\ \A t \in Tasks : task[t].pc = "idle"

\* C17 as stated: the user view returned by a successful registration that
\* carried a valid referral code contains a referred_by field that is set
\* and identifies the referrer.  It does not hold: the view that register
\* returns has no referred_by field.
C17_ViewNamesReferrer ==
    \A t \in Tasks :
       Registered(t) /\ Referrers(t) # {}
          => \A v \in task[t].resp.shown :
                /\ "referred_by" \in DOMAIN v
                /\ v.referred_by = Referrers(t)

\* C18 as stated: a registration with a well-formed email that is not yet
\* registered, a password of at least 6 characters and a name of at least 2
\* characters succeeds for any email domain, returning a token and creating
\* an account with plan free, role user and record_count 0.  It does not
\* hold: register refuses every address that does not end with @gmail.com.
C18_AnyDomainRegisters ==
    \A t \in Tasks :
       /\ Done(t)
       /\ task[t].op = "register"
       /\ RegisterValid(task[t].req)
       /\ \A u \in DOMAIN Pre(t).users :
             Pre(t).users[u].email # task[t].req.email
       => /\ task[t].resp.status = 200
          /\ task[t].resp.token # {}
          /\ \E u \in DOMAIN users \ DOMAIN Pre(t).users :
                /\ users[u].email = task[t].req.email
                /\ users[u].plan = "free"
                /\ users[u].role = "user"
                /\ users[u].record_count = 0

----------------------------------------------------------------------------
(* The plan catalog, one operation at a time: the admin creates, edits and   *)
(* deletes plans and assigns plans to the two accounts.                      *)

NextPlans ==
    \E t \in {1} :
       \/ \E u \in RegularUsers, p \in {"free", "pro", "gold", "bogus"} :
             StartApi(t, "admin_update_plan", AdminUser, AssignReq(u, p))
       \/ \E p \in {"gold", "pro"} :
             StartApi(t, "admin_create_plan", AdminUser,
                      PlanReq(p, {3}, "Plan"))
       \/ \E p \in {"pro", "gold"}, lim \in {{}, {7}}, n \in {"", "Plan"} :
             StartApi(t, "admin_update_plan_details", AdminUser,
                      PlanReq(p, lim, n))
       \/ \E a \in {AdminUser, "u1"},
             p \in {"free", "pro", "enterprise", "gold"} :
             StartApi(t, "admin_delete_plan", a, PlanReq(p, {}, ""))
       \/ ApPlan(t) \/ ApUser(t) \/ ApSet(t)
       \/ PcFind(t) \/ PcInsert(t)
       \/ PeFind(t) \/ PeSet(t) \/ PeRead(t)
       \/ PdFind(t) \/ PdCount(t) \/ PdDelete(t)
       \/ Return(t)

SpecPlans == Init /\ [][NextPlans]_vars

\* The task is the assignment of a plan by an admin to an existing account.
Assigned(t) ==
    /\ Done(t)
    /\ task[t].op = "admin_update_plan"
    /\ task[t].actor \in DOMAIN Pre(t).users
    /\ Pre(t).users[task[t].actor].role = "admin"
    /\ task[t].req.user_id \in DOMAIN Pre(t).users

\* The assignment succeeded and gave the account the plan and the limit.
AssignedWith(t, limit) ==
    /\ task[t].resp.status = 200
    /\ users[task[t].req.user_id].plan = task[t].req.plan
    /\ users[task[t].req.user_id].record_limit = limit

\* C19 as stated: after any sequence of plan create, edit and delete
\* operations, assigning plan p uses the catalog entry's record_limit when
\* the catalog has an entry for p, and otherwise falls back to the built-in
\* table (free 2, pro 50, enterprise 500) for exactly those three
\* identifiers, rejecting any other identifier as invalid.  It does not hold:
\* deleting a plan also removes it from the table the fallback reads.
C19_CatalogThenBuiltIn ==
    \A t \in Tasks :
       Assigned(t) =>
          LET p == task[t].req.plan IN
          IF p \in DOMAIN Pre(t).plans
          THEN AssignedWith(t, Pre(t).plans[p])
          ELSE IF p \in DOMAIN DEFAULT_PLANS
               THEN AssignedWith(t, DEFAULT_PLANS[p])
               ELSE /\ task[t].resp = Resp(400, "Invalid plan")
                    /\ Snapshot = Pre(t)

\* The task is the deletion, asked by an admin, of a catalog plan that some
\* account referenced when the request arrived.
DeleteOfReferenced(t) ==
    /\ Done(t)
    /\ task[t].op = "admin_delete_plan"
    /\ task[t].actor \in DOMAIN Pre(t).users
    /\ Pre(t).users[task[t].actor].role = "admin"
    /\ task[t].req.plan \in DOMAIN Pre(t).plans
    /\ \E u \in DOMAIN Pre(t).users : Pre(t).users[u].plan = task[t].req.plan

\* C20: deleting a plan while at least one account references it is rejected
\* and leaves the catalog unchanged; so, with operations run one at a time,
\* no plan that some account references is ever removed from the catalog.
C20_ReferencedPlanKept ==
    \A t \in Tasks :
       /\ DeleteOfReferenced(t)
             => /\ task[t].resp.status = 400
                /\ task[t].resp.kind = "Cannot delete plan"
                /\ Snapshot = Pre(t)
       /\ task[t].pc = "pd_delete"
             => \A u \in DOMAIN users : users[u].plan # task[t].req.plan

\* C20's case: the admin has asked to delete a plan that it had created and
\* assigned to an account, and has been answered.
C20_Witness ==
    \E t \in Tasks :
       /\ DeleteOfReferenced(t)
       /\ task[t].req.plan = "gold"
       /\ "gold" \in DOMAIN plans
       /\ \E u \in RegularUsers : users[u].plan = "gold"

----------------------------------------------------------------------------
(* Plan assignment, single and bulk, to accounts that may have earned a      *)
(* referral bonus: registrations and assignments, one operation at a time.   *)

NextAssign ==
    \E t \in {1} :
       \/ /\ nextUser <= MaxRegistrations
          /\ \E c \in {{}, {"ref-u1"}} :
                StartRegister(t, RegisterReq("a@gmail.com", "secret", "Al", c))
       \/ \E u \in {"u1", "ghost"}, p \in {"free", "pro", "bogus"} :
             StartApi(t, "admin_update_plan", AdminUser, AssignReq(u, p))
       \/ \E ids \in {<<>>, <<"u1">>, <<"u1", "u2">>, <<"u2", "u2">>,
                      <<"adm", "u2">>, <<"adm">>, <<"ghost", "u1">>},
             p \in {"free", "pro", "bogus"} :
             StartApi(t, "admin_bulk_update_plan", AdminUser,
                      BulkAssignReq(ids, p))
       \/ RgEmail(t) \/ RgSettings(t) \/ RgCode(t) \/ RgReferrer(t)
       \/ RgCredit(t) \/ RgInsert(t) \/ RgLog(t)
       \/ ApPlan(t) \/ ApUser(t) \/ ApSet(t)
       \/ BpPlan(t) \/ BpFind(t) \/ BpSet(t)
       \/ Return(t)

SpecAssign == Init /\ [][NextAssign]_vars

\* The limit of plan p when the task's request arrived: the catalog entry's,
\* else the PLAN_LIMITS entry's (-1 when there is none).
PlanLimitBefore(t, p) ==
    IF p \in DOMAIN Pre(t).plans THEN Pre(t).plans[p]
    ELSE IF p \in DOMAIN Pre(t).plan_limits THEN Pre(t).plan_limits[p]
    ELSE -1

\* The accounts a successful assignment by the admin, single or bulk, was
\* asked to change: the existing non-admin accounts it names (the single
\* assignment may also name an admin).
AssignedAccounts(t) ==
    IF ~Done(t) \/ task[t].resp.status # 200 THEN {}
    ELSE IF task[t].op = "admin_update_plan"
         THEN {task[t].req.user_id} \cap DOMAIN Pre(t).users
         ELSE IF task[t].op = "admin_bulk_update_plan"
              THEN {u \in Range(task[t].req.user_ids) \cap DOMAIN Pre(t).users :
                       Pre(t).users[u].role # "admin"}
              ELSE {}

\* C21 as stated: after an admin sets an account's plan (single or bulk), the
\* account's record_limit equals the assigned plan's record_limit plus the
\* account's accumulated referral_bonus, so that a granted referral bonus is
\* never lost by a plan change.  It does not hold: both handlers set
\* record_limit to the plan's limit alone.
C21_PlanPlusBonus ==
    \A t \in Tasks :
       \A u \in AssignedAccounts(t) :
          users[u].record_limit
             = PlanLimitBefore(t, task[t].req.plan) + users[u].referral_bonus

\* The existing non-admin accounts a bulk request names.
Eligible(t) ==
    {u \in Range(task[t].req.user_ids) \cap DOMAIN Pre(t).users :
        Pre(t).users[u].role # "admin"}

\* C30 as stated: a bulk plan update, for a plan that has a limit, reports
\* updated_count equal to the number of distinct existing non-admin accounts
\* named in the request, whatever plan and record_limit they had before, and
\* each of them ends with the requested plan and that plan's limit.  It does
\* not hold: updated_count is update_many's modified_count, which leaves out
\* the accounts that already had the plan and the limit.
C30_BulkCountsEligible ==
    \A t \in Tasks :
       /\ Done(t)
       /\ task[t].op = "admin_bulk_update_plan"
       /\ task[t].actor = AdminUser
       /\ PlanLimitBefore(t, task[t].req.plan) >= 0
       /\ Eligible(t) # {}
       => /\ task[t].resp.status = 200
          /\ task[t].resp.count = Cardinality(Eligible(t))
          /\ \A u \in Eligible(t) :
                /\ users[u].plan = task[t].req.plan
                /\ users[u].record_limit
                      = PlanLimitBefore(t, task[t].req.plan)

----------------------------------------------------------------------------
(* Every admin operation, asked by the admin and by account u1, one          *)
(* operation at a time.                                                      *)

NextGate ==
    \E t \in {1}, a \in {AdminUser, "u1"} :
       \/ StartApi(t, "admin_create_record", a,
                   AdminCreateReq("u2", "h", "A", "c1", 1, FALSE))
       \/ \E i \in RecordIds : StartApi(t, "admin_delete_record", a, IdReq(i))
       \/ StartApi(t, "admin_delete_user", a, UserReq("u2"))
       \/ StartApi(t, "admin_bulk_delete_users", a, UsersReq(<<"u2">>))
       \/ StartApi(t, "admin_update_plan", a, AssignReq("u2", "pro"))
       \/ StartApi(t, "admin_bulk_update_plan", a,
                   BulkAssignReq(<<"u1", "u2">>, "pro"))
       \/ StartApi(t, "admin_create_plan", a, PlanReq("gold", {3}, "Plan"))
       \/ StartApi(t, "admin_update_plan_details", a,
                   PlanReq("gold", {7}, ""))
       \/ StartApi(t, "admin_delete_plan", a, PlanReq("gold", {}, ""))
       \/ StartApi(t, "admin_update_settings", a, SettingsReq({2}, {}))
       \/ AcUser(t) \/ AcCf(t) \/ AcInsert(t) \/ AcInc(t)
       \/ AdFind(t) \/ AdCf(t) \/ AdDel(t) \/ AdDec(t)
       \/ DuFind(t) \/ DuList(t) \/ DuCf(t) \/ DuDelMany(t) \/ DuDelUser(t)
       \/ BdFind(t) \/ BdList(t) \/ BdCf(t) \/ BdDelMany(t) \/ BdDelUser(t)
       \/ ApPlan(t) \/ ApUser(t) \/ ApSet(t)
       \/ BpPlan(t) \/ BpFind(t) \/ BpSet(t)
       \/ PcFind(t) \/ PcInsert(t)
       \/ PeFind(t) \/ PeSet(t) \/ PeRead(t)
       \/ PdFind(t) \/ PdCount(t) \/ PdDelete(t)
       \/ StSet(t) \/ StFind(t)
       \/ Return(t)

SpecGate == Init /\ [][NextGate]_vars

\* The task is an admin operation asked by an existing account that is not
\* an admin.
AskedByNonAdmin(t) ==
    /\ task[t].op \in AdminOps
    /\ task[t].actor \in DOMAIN Pre(t).users
    /\ Pre(t).users[task[t].actor].role # "admin"

\* C29: every admin-scoped operation invoked by an authenticated account whose
\* role is not admin fails with Forbidden (403) before any store read or write
\* of the operation, leaving accounts, records, plans, settings and the
\* provider unchanged.
C29_NonAdminForbidden ==
    \A t \in Tasks :
       AskedByNonAdmin(t)
          => /\ Done(t)
             /\ task[t].resp = Resp(403, "Forbidden")
             /\ task[t].cfcalls = 0
             /\ task[t].rec = {} /\ task[t].todo = {}
             /\ Snapshot = Pre(t)

\* C29's case: account u1 has asked for the deletion of account u2, which
\* owns a record, while the catalog holds a plan that the admin created.
C29_Witness ==
    \E t \in Tasks :
       /\ AskedByNonAdmin(t)
       /\ task[t].op = "admin_delete_user"
       /\ Owned(records, "u2") = 1
       /\ "gold" \in DOMAIN plans

----------------------------------------------------------------------------
(* Creation followed at once by a listing, for an account with no record and *)
(* for an enterprise account one record short of the listing's page.         *)

\* The records the enterprise account owns at the start, one fewer than a
\* listing returns, all older than the records created later.
OldRecords == {ManyRecord(k) : k \in (2 - ListCap100) .. 0}

InitList ==
    /\ users = [u \in UserIds |->
                  IF u = "u2"
                  THEN [UserDoc(u, "user", PLAN_LIMITS_enterprise)
                          EXCEPT !.plan = "enterprise",
                                 !.record_count = ListCap100 - 1]
                  ELSE Init!1!2[u]]
    /\ records = OldRecords
    /\ provider = {[id |-> r.cf_record_id, type |-> r.record_type,
                     name |-> CfFullName(r.name), content |-> r.content,
                     ttl |-> r.ttl, proxied |-> r.proxied] : r \in OldRecords}
    /\ Init!4 /\ Init!5 /\ Init!6 /\ Init!7 /\ Init!8 /\ Init!9 /\ Init!10
    /\ Init!11 /\ Init!12

NextList ==
    \E t \in {1} :
       \/ \E a \in RegularUsers, n \in {"h", "@", "w"}, c \in {"c1", "c2"} :
             StartApi(t, "create_record", a, CreateReq(n, "A", c, 300, TRUE))
       \/ \E a \in RegularUsers :
             StartApi(t, "list_records", a, NoReq)
       \/ /\ task[t].op = "create_record"
          /\ FollowUp(t, Authenticate(NewTask("list_records", task[t].actor,
                                              task[t].req)))
          /\ UNCHANGED <<users, records, provider, nextId, nextCf, conv>>
       \/ CrCount(t) \/ CrDup(t) \/ CrCf(t) \/ CrInsert(t) \/ CrInc(t)
       \/ CrLog(t)
       \/ LsFind(t)
       \/ Return(t)

SpecList == InitList /\ [][NextList]_vars

\* The task is a listing that followed at once a successful create by the
\* same account; its request is still the create's.
ListedAfterCreate(t) ==
    /\ Done(t)
    /\ task[t].op = "list_records"
    /\ task[t].first # {}

\* The listing has exactly one entry for the created record, with the input's
\* content, ttl and proxied and the full name of the input's name.
ShowsCreated(t) ==
    LET req == task[t].req
        fn == IF req.name = "@" THEN CF_ZONE_DOMAIN
              ELSE req.name \o "." \o CF_ZONE_DOMAIN
        entries == {v \in task[t].resp.shown :
                       v.name = req.name /\ v.record_type = req.record_type}
    IN  /\ task[t].resp.status = 200
        /\ Cardinality(entries) = 1
        /\ \A v \in entries :
              /\ v.user_id = task[t].actor
              /\ v.full_name = fn
              /\ v.content = The(req.content)
              /\ v.ttl = The(req.ttl)
              /\ v.proxied = The(req.proxied)

\* C26 as stated: a successful self-service create followed immediately by a
\* listing for the same owner returns exactly one entry for the new record,
\* with the input's content, ttl and proxied and the full name of its name.
\* It does not hold when the owner has more records than a listing returns.
C26_AsStated == \A t \in Tasks : ListedAfterCreate(t) => ShowsCreated(t)

\* C26, amended: the same when the owner has at most 100 records after the
\* create, 100 being the most a listing returns.
C26_ListShowsCreated ==
    \A t \in Tasks :
       ListedAfterCreate(t) /\ Owned(records, task[t].actor) <= ListCap100
          => ShowsCreated(t)

\* C26's case: the enterprise account has created its 100th record, at the
\* apex, and has listed its records.
C26_Witness ==
    \E t \in Tasks :
       /\ ListedAfterCreate(t)
       /\ task[t].req.name = "@"
       /\ Owned(records, task[t].actor) = ListCap100
       /\ task[t].resp.count = ListCap100

----------------------------------------------------------------------------
(* The chat of an account (SpecBot) *)

\* The accounts whose telegram_chat_id is the chat's.
LinkedTo(c) == {u \in DOMAIN users : c \in users[u].telegram_chat_id}

\* C38 as stated: at most one account is linked to any given bot chat id at
\* any time: after a successful bot login from a chat exactly one account has
\* that chat id, even when the chat was already linked to a different account
\* and did not log out first.  It does not hold: the login sets the chat id
\* of the new account and leaves the old one's.
C38_OneAccountPerChat ==
    /\ \A c \in Chats : Cardinality(LinkedTo(c)) <= 1
    /\ \A t \in Tasks :
          Done(t) /\ task[t].resp.kind = "login_success"
             => Cardinality(LinkedTo(task[t].actor)) = 1

----------------------------------------------------------------------------
(* The admin's bulk operations and single deletion on lists that name the    *)
(* admin, one operation at a time.                                           *)

NextBulk ==
    \E t \in {1} :
       \/ StartApi(t, "admin_create_record", AdminUser,
                   AdminCreateReq("u1", "h", "A", "c1", 1, FALSE))
       \/ \E ids \in {<<AdminUser>>, <<AdminUser, "u1">>, <<"u1", "u2">>,
                      <<"ghost">>},
             p \in {"free", "pro"} :
             StartApi(t, "admin_bulk_update_plan", AdminUser,
                      BulkAssignReq(ids, p))
       \/ \E u \in UserIds :
             StartApi(t, "admin_delete_user", AdminUser, UserReq(u))
       \/ \E ids \in {<<AdminUser>>, <<AdminUser, "u2">>, <<"u1", "u1">>,
                      <<"ghost", AdminUser>>} :
             StartApi(t, "admin_bulk_delete_users", AdminUser, UsersReq(ids))
       \/ AcUser(t) \/ AcCf(t) \/ AcInsert(t) \/ AcInc(t)
       \/ BpPlan(t) \/ BpFind(t) \/ BpSet(t)
       \/ DuFind(t) \/ DuList(t) \/ DuCf(t) \/ DuDelMany(t) \/ DuDelUser(t)
       \/ BdFind(t) \/ BdList(t) \/ BdCf(t) \/ BdDelMany(t) \/ BdDelUser(t)
       \/ Return(t)

SpecBulk == Init /\ [][NextBulk]_vars

\* The admin accounts when the task's request arrived.
AdminsBefore(t) ==
    {a \in DOMAIN Pre(t).users : Pre(t).users[a].role = "admin"}

\* C31: bulk operations never affect admin accounts: a bulk plan update
\* leaves every admin account's plan and record_limit unchanged and fails
\* with 400 when its (non-empty) list names no eligible account, and neither
\* single nor bulk account deletion ever removes an account whose role is
\* admin; a bulk delete of only admin ids reports deleted_count 0.
C31_AdminsUntouched ==
    \A t \in Tasks :
       /\ task[t].op \in {"admin_bulk_update_plan", "admin_delete_user",
                          "admin_bulk_delete_users"}
             => \A a \in AdminsBefore(t) :
                   /\ a \in DOMAIN users
                   /\ users[a] = Pre(t).users[a]
       /\ Done(t) /\ task[t].op = "admin_bulk_update_plan"
             /\ task[t].req.user_ids # <<>> /\ Eligible(t) = {}
             => /\ task[t].resp.status = 400
                /\ Snapshot = Pre(t)
       /\ Done(t) /\ task[t].op = "admin_bulk_delete_users"
             /\ task[t].req.user_ids # <<>> /\ Doomed(t) = {}
             => /\ task[t].resp.status = 200
                /\ task[t].resp.count = 0
                /\ Snapshot = Pre(t)

\* C31's case: a bulk plan update that named the admin and account u1 has
\* moved u1 to the plan pro.
C31_Witness ==
    \E t \in Tasks :
       /\ Done(t)
       /\ task[t].op = "admin_bulk_update_plan"
       /\ task[t].req.user_ids = <<AdminUser, "u1">>
       /\ task[t].resp.status = 200
       /\ users["u1"].plan = "pro"
       /\ users[AdminUser].plan = "enterprise"

----------------------------------------------------------------------------
(* The referrer of an account (SpecRegister) *)

\* C37 as stated: in every reachable state, every account's referred_by is
\* either null or the id of an account that currently exists, including
\* after the referrer has been removed by an admin account deletion.  It
\* does not hold: the deletion leaves the referred accounts as they are.
C37_ReferrerExists ==
    \A u \in DOMAIN users : users[u].referred_by \subseteq DOMAIN users

----------------------------------------------------------------------------
(* Registration while the admin changes the plan catalog, one operation at   *)
(* a time: the accounts are moved to another plan, plans are deleted and     *)
(* created again.                                                            *)

NextFree ==
    \E t \in {1} :
       \/ /\ nextUser <= MaxRegistrations
          /\ \E e \in {"a@gmail.com", "B@GMAIL.COM"}, c \in {{}, {"ref-u1"}} :
                StartRegister(t, RegisterReq(e, "secret", "Al", c))
       \/ \E u \in RegularUsers \cup {NewUserId(1)} :
             StartApi(t, "admin_update_plan", AdminUser, AssignReq(u, "pro"))
       \/ \E p \in {"free", "pro"} :
             StartApi(t, "admin_delete_plan", AdminUser, PlanReq(p, {}, ""))
       \/ StartApi(t, "admin_create_plan", AdminUser,
                   PlanReq("free", {3}, "Plan"))
       \/ RgEmail(t) \/ RgSettings(t) \/ RgCode(t) \/ RgReferrer(t)
       \/ RgCredit(t) \/ RgInsert(t) \/ RgLog(t)
       \/ ApPlan(t) \/ ApUser(t) \/ ApSet(t)
       \/ PdFind(t) \/ PdCount(t) \/ PdDelete(t)
       \/ PcFind(t) \/ PcInsert(t)
       \/ Return(t)

SpecFree == Init /\ [][NextFree]_vars

\* C40 as stated: the registration of an eligible (Gmail), not yet registered
\* email succeeds in every reachable state of the plan catalog and of the
\* in-process plan-limit dictionary, including after the plan free has been
\* deleted by the admin in the same process.  It does not hold: register
\* reads PLAN_LIMITS["free"], which the deletion has popped.
C40_RegistersWithoutFree ==
    \A t \in Tasks :
       /\ Done(t)
       /\ task[t].op = "register"
       /\ RegisterValid(task[t].req)
       /\ EndsWith(Lower(task[t].req.email), "@gmail.com")
       /\ \A u \in DOMAIN Pre(t).users :
             Pre(t).users[u].email # task[t].req.email
       => /\ task[t].resp.status = 200
          /\ \E u \in DOMAIN users \ DOMAIN Pre(t).users :
                users[u].email = task[t].req.email

----------------------------------------------------------------------------
(* Two registrations in flight at once, with emails and referral codes that  *)
(* may coincide.                                                             *)

NextTwins ==
    \E t \in Tasks :
       \/ /\ nextUser <= MaxRegistrations
          /\ \E e \in {"a@gmail.com", "b@gmail.com"}, c \in {{}, {"ref-u1"}} :
                StartRegister(t, RegisterReq(e, "secret", "Al", c))
       \/ RgEmail(t) \/ RgSettings(t) \/ RgCode(t) \/ RgReferrer(t)
       \/ RgCredit(t) \/ RgInsert(t) \/ RgLog(t)
       \/ Return(t)

SpecTwins == Init /\ [][NextTwins]_vars

\* No registration is between its first and its last step.
NoRegistrationInFlight == \A t \in Tasks : task[t].pc \in {"idle", "done"}

\* The accounts stored with referred_by naming u.
ReferredBy(u) == {n \in DOMAIN users : users[n].referred_by = {u}}

\* C35 as stated: when registrations with the same email and the same valid
\* referral code interleave, the referrer is credited only for the accounts
\* actually created (its referral_count grows by the number of new accounts
\* whose referred_by names it, its record_limit and referral_bonus by that
\* number times the bonus) and no request crashes.  It does not hold: both
\* pass the email check, both credit the referrer, and the second insert is
\* refused by the unique index on email.
C35_CreditedPerAccount ==
    NoRegistrationInFlight =>
       /\ \A u \in UserIds :
             LET n == Cardinality(ReferredBy(u))
                 b == settings.referral_bonus_per_invite
             IN  /\ users[u].referral_count = Init!1!2[u].referral_count + n
                 /\ users[u].referral_bonus = Init!1!2[u].referral_bonus + n * b
                 /\ users[u].record_limit = Init!1!2[u].record_limit + n * b
       /\ \A t \in Tasks : Done(t) => task[t].resp.status # 500

----------------------------------------------------------------------------
(* Two self-service creations in flight at once for account u1, whose        *)
(* record_limit is 1 and which owns no record.                               *)

NextQuotaRace ==
    \E t \in Tasks :
       \/ \E n \in {"h", "@"} :
             StartApi(t, "create_record", "u1",
                      CreateReq(n, "A", "c1", 1, FALSE))
       \/ CrCount(t) \/ CrDup(t) \/ CrCf(t) \/ CrInsert(t) \/ CrInc(t)
       \/ CrLog(t)
       \/ Return(t)

SpecQuotaRace == InitQuota /\ [][NextQuotaRace]_vars

\* The task is a creation that arrived when its owner held one record less
\* than its record_limit, and it has answered.
CreatedAtLastSlot(t) ==
    /\ Done(t)
    /\ task[t].op = "create_record"
    /\ Owned(Pre(t).records, task[t].actor)
          = Pre(t).users[task[t].actor].record_limit - 1

\* C34 as stated: two concurrent self-service creations by the same owner,
\* started when the owner holds record_limit - 1 records, cannot both
\* succeed, and after both complete the owner holds at most record_limit
\* records.  It does not hold: the count is read before either insert, so
\* both pass the quota check and both insert.
C34_LastSlotTakenOnce ==
    \A t1, t2 \in Tasks :
       /\ t1 # t2
       /\ CreatedAtLastSlot(t1) /\ CreatedAtLastSlot(t2)
       /\ task[t1].actor = task[t2].actor
       => /\ ~(task[t1].resp.status = 201 /\ task[t2].resp.status = 201)
          /\ Owned(records, task[t1].actor)
                <= users[task[t1].actor].record_limit

----------------------------------------------------------------------------
(* A creation by account u1 and deletions of the created record, by its      *)
(* owner, by the admin and through the bot, in flight at once.               *)

NextTug ==
    \E t \in Tasks :
       \/ StartApi(t, "create_record", "u1", CreateReq("h", "A", "c1", 1, FALSE))
       \/ StartApi(t, "delete_record", "u1", IdReq(1))
       \/ StartApi(t, "admin_delete_record", AdminUser, IdReq(1))
       \/ StartCallback(t, "chat1", CallbackReq("confirm_del", 1, ""))
       \/ CrCount(t) \/ CrDup(t) \/ CrCf(t) \/ CrInsert(t) \/ CrInc(t)
       \/ CrLog(t)
       \/ DeFind(t) \/ DeCf(t) \/ DeDel(t) \/ DeDec(t) \/ DeLog(t)
       \/ AdFind(t) \/ AdCf(t) \/ AdDel(t) \/ AdDec(t)
       \/ CdFind(t) \/ CdCf(t) \/ CdDel(t) \/ CdDec(t) \/ CdLog(t)
       \/ Return(t)

SpecTug == InitLinked /\ [][NextTug]_vars

\* C32 as stated: no operation ever produces a negative record_count: in
\* every reachable state, interleavings of self-service, admin and bot
\* deletions of the same record included, every account's record_count is at
\* least 0.  It does not hold: a creation inserts the record before it
\* increments the counter, and a deletion that runs between the two
\* decrements a counter that is still 0.
C32_CountNeverNegative == \A u \in DOMAIN users : users[u].record_count >= 0

----------------------------------------------------------------------------
(* Local records and their provider records (SpecLife) *)

\* No operation is between its first step and its answer.
NoOperationInFlight == \A t \in Tasks : task[t].pc \in {"idle", "done"}

\* The provider holds a record under the id the stored record carries.
HasRemote(r) == \E p \in provider : p.id = r.cf_record_id

\* C33: a record never exists locally without a corresponding remote record:
\* in every state with no operation in flight, every stored record carries a
\* provider id naming a record that exists at the provider, the provider
\* being changed through this system only.
C33_LocalHasRemote == NoOperationInFlight => \A r \in records : HasRemote(r)

\* C33's case: a deletion has succeeded, at the provider and locally, and
\* another record is still stored, with its provider record.
C33_Witness ==
    /\ NoOperationInFlight
    /\ \E t \in Tasks :
          /\ Done(t)
          /\ IsDelete(t)
          /\ task[t].resp.status = 200
          /\ Cardinality(Pre(t).records) = 2
          /\ Cardinality(records) = 1
          /\ Cardinality(provider) = 1

----------------------------------------------------------------------------
(* Creations for account u1, by itself, by the admin and through the bot,   *)
(* in flight together with the admin's deletion of u1.                       *)

NextOrphan ==
    \E t \in Tasks :
       \/ StartApi(t, "create_record", "u1", CreateReq("h", "A", "c1", 1, FALSE))
       \/ StartApi(t, "admin_create_record", AdminUser,
                   AdminCreateReq("u1", "h", "A", "c1", 1, FALSE))
       \/ \E d \in {"add_start", "add_type"} :
             StartCallback(t, "chat1", CallbackReq(d, 0, "A"))
       \/ \E r \in MessageReqs("chat1", {}, {"h"}, {"c1"}) :
             StartMessage(t, "chat1", r)
       \/ StartApi(t, "admin_delete_user", AdminUser, UserReq("u1"))
       \/ CrCount(t) \/ CrDup(t) \/ CrCf(t) \/ CrInsert(t) \/ CrInc(t)
       \/ CrLog(t)
       \/ AcUser(t) \/ AcCf(t) \/ AcInsert(t) \/ AcInc(t)
       \/ AsCount(t)
       \/ MhUser(t) \/ MvDup(t) \/ MvCf(t) \/ MvInsert(t) \/ MvInc(t)
       \/ MvLog(t)
       \/ DuFind(t) \/ DuList(t) \/ DuCf(t) \/ DuDelMany(t) \/ DuDelUser(t)
       \/ Return(t)

SpecOrphan == InitLinked /\ [][NextOrphan]_vars

\* C36 as stated: in every reachable state, interleavings of an in-flight
\* creation (self-service, admin or bot) with the admin's deletion of the
\* owning account included, the owner of every stored record is an existing
\* account.  It does not hold: a creation that has resolved its owner
\* inserts its record after the deletion has removed the account.
C36_OwnerExists == \A r \in records : r.user_id \in DOMAIN users

----------------------------------------------------------------------------
(* The bot application: start_telegram_bot, run by the startup event, and    *)
(* stop_telegram_bot, run by it and by the shutdown event.  A call into the  *)
(* bot library or to the bot's API returns or raises.                        *)

max_retries == 5

\* An Application as ApplicationBuilder().build() returns it.
Built == [initialized |-> FALSE, running |-> FALSE, polling |-> FALSE]

\* The instance telegram_bot_app refers to.
App == bot.instances[bot.telegram_bot_app]

\* The instance is neither polling, nor running, nor holding its resources.
CleanedUp(a) == ~a.polling /\ ~a.running /\ ~a.initialized

BotFrame ==
    UNCHANGED <<users, records, provider, nextId, nextCf, conv, task, plans,
                plan_limits, settings, nextUser>>

BotAt(pc) == bot.pc = pc

BotGoto(pc) == bot' = [bot EXCEPT !.pc = pc]

\* A field of the instance telegram_bot_app refers to changes.
SetApp(b, field, v) ==
    [b EXCEPT !.instances[b.telegram_bot_app][field] = v]

\* An exception inside the attempt's try block: the except clause runs.
BotRaise == BotGoto("cl_updater")

\* The startup event calls start_telegram_bot: without a token, or without
\* the bot library, it returns at once; otherwise it first stops the
\* instance telegram_bot_app refers to.
StartTelegramBot ==
    /\ BotAt("off")
    /\ \E tok \in BOOLEAN, installed \in BOOLEAN :
          bot' = IF tok /\ installed
                 THEN [bot EXCEPT !.pc = "stop", !.ret = "flush",
                                  !.token = TRUE]
                 ELSE [bot EXCEPT !.pc = "returned", !.token = tok]
    /\ BotFrame

\* The shutdown event calls stop_telegram_bot.
Shutdown ==
    /\ BotAt("returned")
    /\ bot' = [bot EXCEPT !.pc = "stop", !.ret = "stopped"]
    /\ BotFrame

\* stop_telegram_bot: nothing to do when telegram_bot_app is None.
StopEnter ==
    /\ BotAt("stop")
    /\ BotGoto(IF bot.telegram_bot_app = 0 THEN bot.ret ELSE "st_updater")
    /\ BotFrame

\* updater.stop() under wait_for: it returns, times out or raises.
StUpdater ==
    /\ BotAt("st_updater")
    /\ IF App.polling
       THEN \E out \in {"ok", "timeout", "error"} :
               bot' = IF out = "ok"
                      THEN [SetApp(bot, "polling", FALSE) EXCEPT !.pc = "st_app"]
                      ELSE [bot EXCEPT !.pc = "st_finally"]
       ELSE BotGoto("st_app")
    /\ BotFrame

StApp ==
    /\ BotAt("st_app")
    /\ IF App.running
       THEN \E out \in {"ok", "timeout", "error"} :
               bot' = IF out = "ok"
                      THEN [SetApp(bot, "running", FALSE)
                              EXCEPT !.pc = "st_shutdown"]
                      ELSE [bot EXCEPT !.pc = "st_finally"]
       ELSE BotGoto("st_shutdown")
    /\ BotFrame

StShutdown ==
    /\ BotAt("st_shutdown")
    /\ \E out \in {"ok", "timeout", "error"} :
          bot' = IF out = "ok"
                 THEN [SetApp(bot, "initialized", FALSE)
                         EXCEPT !.pc = "st_finally"]
                 ELSE [bot EXCEPT !.pc = "st_finally"]
    /\ BotFrame

\* finally: telegram_bot_app = None, whatever happened.
StFinally ==
    /\ BotAt("st_finally")
    /\ bot' = [bot EXCEPT !.telegram_bot_app = 0, !.pc = bot.ret]
    /\ BotFrame

\* The pre-start flush, whose failures are logged and dropped, and the sleep
\* that follows it; the retry loop starts with attempt 1.
Flush ==
    /\ BotAt("flush")
    /\ bot' = [bot EXCEPT !.pc = "build", !.attempt = 1]
    /\ BotFrame

\* telegram_bot_app = ApplicationBuilder()...build(), and the handlers.
Build ==
    /\ BotAt("build")
    /\ \E ok \in BOOLEAN :
          IF ok
          THEN bot' = [bot EXCEPT
                         !.instances = Append(@, Built),
                         !.telegram_bot_app = Len(bot.instances) + 1,
                         !.pc = "initialize"]
          ELSE BotRaise
    /\ BotFrame

Initialize ==
    /\ BotAt("initialize")
    /\ \E ok \in BOOLEAN :
          IF ok
          THEN bot' = [SetApp(bot, "initialized", TRUE) EXCEPT !.pc = "webhook"]
          ELSE BotRaise
    /\ BotFrame

\* Steps 1 and 2: delete_webhook, get_webhook_info and, when the webhook is
\* still set, delete_webhook again.
Webhook ==
    /\ BotAt("webhook")
    /\ \E ok \in BOOLEAN : IF ok THEN BotGoto("get_updates") ELSE BotRaise
    /\ BotFrame

\* Step 3: the getUpdates test; only a 409 Conflict is raised again.
GetUpdates ==
    /\ BotAt("get_updates")
    /\ \E out \in {"ok", "conflict", "error"} :
          IF out = "conflict" THEN BotRaise ELSE BotGoto("set_commands")
    /\ BotFrame

SetCommands ==
    /\ BotAt("set_commands")
    /\ \E ok \in BOOLEAN : IF ok THEN BotGoto("start") ELSE BotRaise
    /\ BotFrame

Start ==
    /\ BotAt("start")
    /\ \E ok \in BOOLEAN :
          IF ok
          THEN bot' = [SetApp(bot, "running", TRUE)
                         EXCEPT !.pc = "start_polling"]
          ELSE BotRaise
    /\ BotFrame

StartPolling ==
    /\ BotAt("start_polling")
    /\ \E ok \in BOOLEAN :
          IF ok
          THEN bot' = [SetApp(bot, "polling", TRUE) EXCEPT !.pc = "get_me"]
          ELSE BotRaise
    /\ BotFrame

GetMe ==
    /\ BotAt("get_me")
    /\ \E ok \in BOOLEAN : IF ok THEN BotGoto("confirm") ELSE BotRaise
    /\ BotFrame

\* Step 5: after the sleep the updater is running, and the function returns,
\* or it is not, and the attempt has failed.
Confirm ==
    /\ BotAt("confirm")
    /\ \E alive \in BOOLEAN :
          bot' = IF alive
                 THEN [bot EXCEPT !.pc = "returned", !.confirmed = TRUE]
                 ELSE [SetApp(bot, "polling", FALSE) EXCEPT !.pc = "cl_updater"]
    /\ BotFrame

\* The except clause's cleanup, inside its own try: an exception of one of
\* its calls is dropped together with the calls that follow.
ClUpdater ==
    /\ BotAt("cl_updater")
    /\ IF bot.telegram_bot_app = 0
       THEN BotGoto("cl_none")
       ELSE IF App.polling
            THEN \E ok \in BOOLEAN :
                    bot' = IF ok
                           THEN [SetApp(bot, "polling", FALSE)
                                   EXCEPT !.pc = "cl_app"]
                           ELSE [bot EXCEPT !.pc = "cl_none"]
            ELSE BotGoto("cl_app")
    /\ BotFrame

ClApp ==
    /\ BotAt("cl_app")
    /\ IF App.running
       THEN \E ok \in BOOLEAN :
               bot' = IF ok
                      THEN [SetApp(bot, "running", FALSE)
                              EXCEPT !.pc = "cl_shutdown"]
                      ELSE [bot EXCEPT !.pc = "cl_none"]
       ELSE BotGoto("cl_shutdown")
    /\ BotFrame

ClShutdown ==
    /\ BotAt("cl_shutdown")
    /\ \E ok \in BOOLEAN :
          bot' = IF ok
                 THEN [SetApp(bot, "initialized", FALSE) EXCEPT !.pc = "cl_none"]
                 ELSE [bot EXCEPT !.pc = "cl_none"]
    /\ BotFrame

\* telegram_bot_app = None; then the backoff sleep and the next attempt, or
\* the end of the loop.
ClNone ==
    /\ BotAt("cl_none")
    /\ bot' = IF bot.attempt < max_retries
              THEN [bot EXCEPT !.telegram_bot_app = 0, !.pc = "build",
                               !.attempt = @ + 1]
              ELSE [bot EXCEPT !.telegram_bot_app = 0, !.pc = "returned"]
    /\ BotFrame

NextStartup ==
    \/ StartTelegramBot \/ Shutdown
    \/ StopEnter \/ StUpdater \/ StApp \/ StShutdown \/ StFinally
    \/ Flush \/ Build \/ Initialize \/ Webhook \/ GetUpdates \/ SetCommands
    \/ Start \/ StartPolling \/ GetMe \/ Confirm
    \/ ClUpdater \/ ClApp \/ ClShutdown \/ ClNone

SpecStartup == Init /\ [][NextStartup]_vars

\* The startup under weak fairness: a call that can return does.
FairStartup == SpecStartup /\ WF_vars(NextStartup)

\* start_telegram_bot returns, and the process ends with the bot stopped.
StartupEnds == <>(bot.pc = "stopped")

\* An attempt has failed and its except clause has run to its end: the next
\* attempt is about to build, or the loop is over without a success.
AfterFailedAttempt ==
    \/ bot.pc = "build" /\ bot.attempt > 1
    \/ bot.pc = "returned" /\ bot.attempt > 0 /\ ~bot.confirmed

\* C39 as stated: start_telegram_bot makes at most 5 start attempts; it
\* returns with telegram_bot_app set only after an attempt in which polling
\* was confirmed running; after every failed attempt the failed instance is
\* cleaned up and telegram_bot_app is None; when all 5 attempts fail it
\* returns with telegram_bot_app None; with no token configured no attempt is
\* made.  It does not hold: a cleanup call that raises ends the cleanup, and
\* the instance is dropped while it is still running.
C39_StartsOrCleansUp ==
    /\ bot.attempt <= max_retries
    /\ bot.pc = "returned" /\ bot.telegram_bot_app # 0 => bot.confirmed
    /\ AfterFailedAttempt =>
          /\ bot.telegram_bot_app = 0
          /\ \A i \in 1 .. Len(bot.instances) : CleanedUp(bot.instances[i])
    /\ bot.pc = "returned" /\ ~bot.confirmed => bot.telegram_bot_app = 0
    /\ ~bot.token => bot.attempt = 0 /\ bot.instances = <<>>

====
